---- MODULE Spec2Model ----
(***************************************************************************)
(* Model of the ASCII tree generator (src/package/ascii-tree-generator.js):*)
(* discovery of .gitignore files, the ignore-resolution fold, the          *)
(* include/exclude regex filter and the tree renderer.                     *)
(*                                                                         *)
(* Strings are sequences of one-character strings, so that startsWith,     *)
(* split, slice and the anchored wildcard regular expression are computed  *)
(* character by character as the code computes them.  Paths are POSIX      *)
(* (path.sep = "/").                                                       *)
(***************************************************************************)
EXTENDS Integers, Sequences, FiniteSets, TLC

(***************************************************************************)
(* String primitives (methods of String.prototype)                         *)
(***************************************************************************)
Range(s) == {s[i] : i \in 1..Len(s)}

Slice(s, from, to) == IF to < from THEN <<>> ELSE SubSeq(s, from, to)

startsWith(s, p) == Len(p) <= Len(s) /\ SubSeq(s, 1, Len(p)) = p

endsWith(s, p) == Len(p) <= Len(s) /\ SubSeq(s, Len(s) - Len(p) + 1, Len(s)) = p

includes(s, c) == c \in Range(s)

\* s.split(sep) for a one-character separator: always at least one part.
RECURSIVE split(_, _)
split(s, sep) ==
  IF \A i \in 1..Len(s) : s[i] # sep THEN <<s>>
  ELSE LET k == CHOOSE i \in 1..Len(s) : s[i] = sep /\ \A j \in 1..(i-1) : s[j] # sep
       IN  <<Slice(s, 1, k - 1)>> \o split(Slice(s, k + 1, Len(s)), sep)

\* parts.join(sep)
RECURSIVE join(_, _)
join(parts, sep) ==
  IF Len(parts) = 0 THEN <<>>
  ELSE IF Len(parts) = 1 THEN parts[1]
  ELSE parts[1] \o <<sep>> \o join(Tail(parts), sep)

Whitespace == {" ", "\n", "\t", "\r"}

\* s.trim()
RECURSIVE trimStart(_)
trimStart(s) == IF Len(s) > 0 /\ s[1] \in Whitespace THEN trimStart(Tail(s)) ELSE s

RECURSIVE trimEnd(_)
trimEnd(s) ==
  IF Len(s) > 0 /\ s[Len(s)] \in Whitespace THEN trimEnd(Slice(s, 1, Len(s) - 1)) ELSE s

trim(s) == trimEnd(trimStart(s))

(***************************************************************************)
(* path module (POSIX), on normalized relative paths                       *)
(***************************************************************************)
Sep == "/"

\* path.join(relativePath, item), both non-empty and normalized
pathJoin(a, b) == a \o <<Sep>> \o b

\* path.dirname of a normalized relative path: "." when there is no separator
pathDirname(p) ==
  LET parts == split(p, Sep)
  IN  IF Len(parts) <= 1 THEN <<".">>
      ELSE join(SubSeq(parts, 1, Len(parts) - 1), Sep)

pathBasename(p) == LET parts == split(p, Sep) IN parts[Len(parts)]

RECURSIVE CommonPrefixLen(_, _)
CommonPrefixLen(a, b) ==
  IF Len(a) = 0 \/ Len(b) = 0 \/ a[1] # b[1] THEN 0
  ELSE 1 + CommonPrefixLen(Tail(a), Tail(b))

\* path.relative(from, to) for normalized paths relative to the same cwd
pathRelative(from, to) ==
  LET f == IF from = <<>> THEN <<>> ELSE split(from, Sep)
      t == IF to = <<>> THEN <<>> ELSE split(to, Sep)
      c == CommonPrefixLen(f, t)
      ups == [i \in 1..(Len(f) - c) |-> <<".", ".">>]
  IN  join(ups \o Slice(t, c + 1, Len(t)), Sep)

(***************************************************************************)
(* Constant tables                                                         *)
(***************************************************************************)
DEFAULT_IGNORE_PATTERNS ==
  << <<"n", "o", "d", "e", "_", "m", "o", "d", "u", "l", "e", "s">>,
     <<".", "g", "i", "t">>,
     <<"*", ".", "l", "o", "g">>,
     <<"d", "i", "s", "t">>,
     <<"b", "u", "i", "l", "d">>,
     <<".", "v", "s", "c", "o", "d", "e">>,
     <<".", "i", "d", "e", "a">>,
     <<".", "D", "S", "_", "S", "t", "o", "r", "e">>,
     <<"T", "h", "u", "m", "b", "s", ".", "d", "b">>,
     <<"*", ".", "t", "m", "p">>,
     <<"*", ".", "c", "a", "c", "h", "e">> >>

ALWAYS_IGNORE ==
  << <<".", "g", "i", "t">>,
     <<"p", "r", "o", "j", "e", "c", "t", "-", "a", "s", "c", "i", "i", "-",
       "t", "r", "e", "e", ".", "t", "x", "t">> >>

GITIGNORE == <<".", "g", "i", "t", "i", "g", "n", "o", "r", "e">>

(***************************************************************************)
(* Pattern Matcher: matchesPattern                                         *)
(***************************************************************************)
hasWildcard(pattern) == includes(pattern, "*") \/ includes(pattern, "?")

\* the expansion without the escape of ".": "." stands for any character
regexPattern_dotUnescaped(pattern) ==
  [i \in 1..Len(pattern) |->
     IF pattern[i] = "*" THEN [t |-> "star", c |-> "."]
     ELSE IF pattern[i] \in {"?", "."} THEN [t |-> "any", c |-> "."]
     ELSE [t |-> "lit", c |-> pattern[i]]]

\* pattern.replace(/\./g,'\\.').replace(/\*/g,'.*').replace(/\?/g,'.'):
\* the regular expression as a sequence of tokens.  Every other character
\* is copied as it is; of the characters that mean something to a regular
\* expression the patterns here contain only "(", see matchesPatternThrows.
regexPattern(pattern) ==
  [i \in 1..Len(pattern) |->
     IF pattern[i] = "*" THEN [t |-> "star", c |-> "."]
     ELSE IF pattern[i] = "?" THEN [t |-> "any", c |-> "."]
     ELSE [t |-> "lit", c |-> pattern[i]]]

\* new RegExp(`^${regexPattern}$`) raises a SyntaxError when the expansion is
\* not a well-formed regular expression: an opening parenthesis that is
\* never closed is copied into the expression as it is.
matchesPatternThrows(pattern) ==
  hasWildcard(pattern) /\ includes(pattern, "(") /\ ~includes(pattern, ")")

\* "." of a regular expression matches any character but a line terminator
dotMatches(c) == c \notin {"\n", "\r"}

\* regex.test(str) for the anchored expression ^tokens$
RECURSIVE regexTest(_, _)
regexTest(tokens, str) ==
  IF Len(tokens) = 0 THEN Len(str) = 0
  ELSE LET tok == tokens[1] IN
       IF tok.t = "star"
         THEN \/ regexTest(Tail(tokens), str)
              \/ Len(str) > 0 /\ dotMatches(str[1]) /\ regexTest(tokens, Tail(str))
       ELSE IF tok.t = "any"
         THEN Len(str) > 0 /\ dotMatches(str[1]) /\ regexTest(Tail(tokens), Tail(str))
       ELSE Len(str) > 0 /\ str[1] = tok.c /\ regexTest(Tail(tokens), Tail(str))

matchesPattern(pattern, itemName, relativePath) ==
  LET normalizedRelativePath == relativePath
      normalizedPattern == pattern
      pathParts == split(normalizedRelativePath, Sep)
  IN  IF hasWildcard(pattern)
        THEN LET regex == regexPattern(normalizedPattern) IN
             \/ regexTest(regex, itemName)
             \/ regexTest(regex, normalizedRelativePath)
             \/ \E i \in 1..Len(pathParts) :
                   regexTest(regex, join(SubSeq(pathParts, 1, i), Sep))
      ELSE
        \/ itemName = normalizedPattern
        \/ normalizedRelativePath = normalizedPattern
        \/ IF includes(normalizedPattern, Sep)
             THEN \/ startsWith(normalizedRelativePath, normalizedPattern \o <<Sep>>)
                  \/ normalizedRelativePath = normalizedPattern
             ELSE \/ \E i \in 1..Len(pathParts) : pathParts[i] = normalizedPattern
                  \/ endsWith(normalizedRelativePath, <<Sep>> \o normalizedPattern)
                  \/ normalizedRelativePath = normalizedPattern

(***************************************************************************)
(* Ignore-File Parser: parseGitignoreContent                               *)
(***************************************************************************)
\* the loop body without the removal of the leading "/"
parseLine_keepsLeadingSlash(rawLine) ==
  LET line0 == trim(rawLine) IN
  IF Len(line0) = 0 \/ startsWith(line0, <<"#">>) THEN <<>>
  ELSE LET isNegation == startsWith(line0, <<"!">>)
           line1 == IF isNegation THEN Slice(line0, 2, Len(line0)) ELSE line0
           line2 == IF endsWith(line1, <<"/">>) THEN Slice(line1, 1, Len(line1) - 1) ELSE line1
       IN  << [pattern |-> line2, isNegation |-> isNegation] >>

\* one line of the loop body; <<>> when the line is skipped
parseLine(rawLine) ==
  LET line0 == trim(rawLine) IN
  IF Len(line0) = 0 \/ startsWith(line0, <<"#">>) THEN <<>>
  ELSE LET isNegation == startsWith(line0, <<"!">>)
           line1 == IF isNegation THEN Slice(line0, 2, Len(line0)) ELSE line0
           line2 == IF endsWith(line1, <<"/">>) THEN Slice(line1, 1, Len(line1) - 1) ELSE line1
           line3 == IF startsWith(line2, <<"/">>) THEN Slice(line2, 2, Len(line2)) ELSE line2
       IN  << [pattern |-> line3, isNegation |-> isNegation] >>

\* the loop with patterns.unshift in place of patterns.push
RECURSIVE parseLines_prepending(_)
parseLines_prepending(lines) ==
  IF Len(lines) = 0 THEN <<>>
  ELSE parseLines_prepending(Tail(lines)) \o parseLine(lines[1])

RECURSIVE parseLines(_)
parseLines(lines) ==
  IF Len(lines) = 0 THEN <<>> ELSE parseLine(lines[1]) \o parseLines(Tail(lines))

parseGitignoreContent(content) == parseLines(split(content, "\n"))

(***************************************************************************)
(* Path Resolver: isPathInDirectory                                        *)
(***************************************************************************)
\* the scope test with a root ignore file that covers the top level only
isPathInDirectory_rootTopLevelOnly(itemPath, directoryPath) ==
  IF directoryPath = <<>> THEN itemPath = <<>>
  ELSE \/ startsWith(itemPath, directoryPath \o <<Sep>>)
       \/ itemPath = directoryPath

\* the scope test on the bare string prefix, without the separator
isPathInDirectory_noSeparator(itemPath, directoryPath) ==
  IF directoryPath = <<>> THEN TRUE
  ELSE startsWith(itemPath, directoryPath)

isPathInDirectory(itemPath, directoryPath) ==
  IF directoryPath = <<>> THEN TRUE
  ELSE \/ startsWith(itemPath, directoryPath \o <<Sep>>)
       \/ itemPath = directoryPath

\* Array.prototype.sort((a, b) => a.relativePath.length - b.relativePath.length):
\* a stable sort by the length of relativePath.
RECURSIVE insertByLength(_, _)
insertByLength(sorted, g) ==
  IF Len(sorted) = 0 THEN <<g>>
  ELSE IF Len(sorted[Len(sorted)].relativePath) <= Len(g.relativePath)
    THEN Append(sorted, g)
  ELSE Append(insertByLength(SubSeq(sorted, 1, Len(sorted) - 1), g), sorted[Len(sorted)])

\* no sort at all: the files stay in the order of the array
sortByLength_asDiscovered(files) == files

\* the sort with the comparator reversed: longest relativePath first
RECURSIVE sortByLength_descending(_)
sortByLength_descending(files) ==
  IF Len(files) = 0 THEN <<>>
  ELSE LET longest == CHOOSE i \in 1..Len(files) :
                        /\ \A j \in 1..Len(files) :
                             Len(files[j].relativePath) <= Len(files[i].relativePath)
                        /\ \A j \in 1..(i - 1) :
                             Len(files[j].relativePath) < Len(files[i].relativePath)
       IN  <<files[longest]>> \o
           sortByLength_descending(SubSeq(files, 1, longest - 1)
                                     \o SubSeq(files, longest + 1, Len(files)))

RECURSIVE sortByLength(_)
sortByLength(files) ==
  IF Len(files) = 0 THEN <<>>
  ELSE insertByLength(sortByLength(SubSeq(files, 1, Len(files) - 1)), files[Len(files)])

\* const itemDirectory = path.dirname(relativePath);
\* const normalizedItemDir = itemDirectory === '.' ? '' : itemDirectory;
normalizedItemDir(relativePath) ==
  LET itemDirectory == pathDirname(relativePath)
  IN  IF itemDirectory = <<".">> THEN <<>> ELSE itemDirectory

\* relativeFromGitignore
relativeFromGitignore(gitignore, relativePath) ==
  IF gitignore.relativePath = <<>> THEN relativePath
  ELSE pathRelative(gitignore.relativePath, relativePath)

(***************************************************************************)
(* Ignore Resolution Engine: shouldIgnore                                  *)
(***************************************************************************)
applicableGitignores(relativePath, files) ==
  sortByLength(SelectSeq(files,
     LAMBDA gitignore : isPathInDirectory(normalizedItemDir(relativePath),
                                          gitignore.relativePath)))

\* the inner loop with a negation that flips the running verdict
RECURSIVE applyPatterns_negationToggles(_, _, _, _)
applyPatterns_negationToggles(patterns, itemName, relFromGitignore, shouldIgnoreItem) ==
  IF Len(patterns) = 0 THEN shouldIgnoreItem
  ELSE applyPatterns_negationToggles(Tail(patterns), itemName, relFromGitignore,
         IF matchesPattern(patterns[1].pattern, itemName, relFromGitignore)
           THEN (IF patterns[1].isNegation THEN ~shouldIgnoreItem ELSE TRUE)
           ELSE shouldIgnoreItem)

\* the inner loop with a negation that never un-ignores
RECURSIVE applyPatterns_noNegation(_, _, _, _)
applyPatterns_noNegation(patterns, itemName, relFromGitignore, shouldIgnoreItem) ==
  IF Len(patterns) = 0 THEN shouldIgnoreItem
  ELSE applyPatterns_noNegation(Tail(patterns), itemName, relFromGitignore,
         IF matchesPattern(patterns[1].pattern, itemName, relFromGitignore)
              /\ ~patterns[1].isNegation
           THEN TRUE
           ELSE shouldIgnoreItem)

\* the inner loop: for (const patternObj of gitignore.patterns)
RECURSIVE applyPatterns(_, _, _, _)
applyPatterns(patterns, itemName, relFromGitignore, shouldIgnoreItem) ==
  IF Len(patterns) = 0 THEN shouldIgnoreItem
  ELSE applyPatterns(Tail(patterns), itemName, relFromGitignore,
         IF matchesPattern(patterns[1].pattern, itemName, relFromGitignore)
           THEN (IF patterns[1].isNegation THEN FALSE ELSE TRUE)
           ELSE shouldIgnoreItem)

\* the outer loop: for (const gitignore of applicableGitignores)
RECURSIVE applyGitignores(_, _, _, _)
applyGitignores(applicable, itemName, relativePath, shouldIgnoreItem) ==
  IF Len(applicable) = 0 THEN shouldIgnoreItem
  ELSE applyGitignores(Tail(applicable), itemName, relativePath,
         applyPatterns(applicable[1].patterns, itemName,
                       relativeFromGitignore(applicable[1], relativePath),
                       shouldIgnoreItem))

\* shouldIgnore raises when matchesPattern compiles an ill-formed expression
shouldIgnoreThrows(itemName, relativePath, files) ==
  LET applicable == applicableGitignores(relativePath, files)
  IN  \E i \in 1..Len(applicable) : \E j \in 1..Len(applicable[i].patterns) :
         matchesPatternThrows(applicable[i].patterns[j].pattern)

shouldIgnore(itemName, relativePath, files) ==
  applyGitignores(applicableGitignores(relativePath, files), itemName, relativePath, FALSE)

(***************************************************************************)
(* Discovery-time resolution: isDirectoryIgnoredBySoFar                    *)
(***************************************************************************)
RECURSIVE soFarPatterns(_, _, _, _)
soFarPatterns(patterns, itemName, relFromGitignore, shouldIgnoreItem) ==
  IF Len(patterns) = 0 THEN shouldIgnoreItem
  ELSE soFarPatterns(Tail(patterns), itemName, relFromGitignore,
         IF matchesPattern(patterns[1].pattern, itemName, relFromGitignore)
           THEN (IF patterns[1].isNegation THEN FALSE ELSE TRUE)
           ELSE shouldIgnoreItem)

RECURSIVE soFarGitignores(_, _, _, _)
soFarGitignores(applicable, itemName, relativePath, shouldIgnoreItem) ==
  IF Len(applicable) = 0 THEN shouldIgnoreItem
  ELSE soFarGitignores(Tail(applicable), itemName, relativePath,
         soFarPatterns(applicable[1].patterns, itemName,
                       IF applicable[1].relativePath = <<>> THEN relativePath
                       ELSE pathRelative(applicable[1].relativePath, relativePath),
                       shouldIgnoreItem))

soFarApplicable(relativePath, files) ==
  LET itemDirectory == pathDirname(relativePath)
      itemDir == IF itemDirectory = <<".">> THEN <<>> ELSE itemDirectory
  IN  sortByLength(SelectSeq(files,
        LAMBDA gitignore : isPathInDirectory(itemDir, gitignore.relativePath)))

isDirectoryIgnoredBySoFarThrows(itemName, relativePath, files) ==
  LET applicable == soFarApplicable(relativePath, files)
  IN  \E i \in 1..Len(applicable) : \E j \in 1..Len(applicable[i].patterns) :
         matchesPatternThrows(applicable[i].patterns[j].pattern)

\* the discovery-time test answering "not ignored" for every directory
isDirectoryIgnoredBySoFar_never(itemName, relativePath, files) == FALSE

isDirectoryIgnoredBySoFar(itemName, relativePath, files) ==
  soFarGitignores(soFarApplicable(relativePath, files), itemName, relativePath, FALSE)

(***************************************************************************)
(* User regular expressions (--include-pattern, --exclude-pattern)         *)
(***************************************************************************)
\* A compiled RegExp is one of: null; an unanchored literal (matches the
\* strings that contain it);  literal$ (matches the strings that end in it).
NullRegex == [kind |-> "null", text |-> <<>>]

createRegex(pattern) == pattern

isSubstring(t, s) == \E i \in 0..(Len(s) - Len(t)) : SubSeq(s, i + 1, i + Len(t)) = t

userRegexTest(regex, s) ==
  IF regex.kind = "contains" THEN isSubstring(regex.text, s)
  ELSE IF regex.kind = "suffix" THEN endsWith(s, regex.text)
  ELSE FALSE

\* the filter with the include expression applied to directories as well
shouldIncludeByPatterns_onDirs(itemName, relativePath, isDirectory, includeRegex, excludeRegex) ==
  IF excludeRegex # NullRegex
       /\ (userRegexTest(excludeRegex, itemName) \/ userRegexTest(excludeRegex, relativePath))
    THEN FALSE
  ELSE IF includeRegex # NullRegex
            /\ ~userRegexTest(includeRegex, itemName) /\ ~userRegexTest(includeRegex, relativePath)
    THEN FALSE
  ELSE TRUE

shouldIncludeByPatterns(itemName, relativePath, isDirectory, includeRegex, excludeRegex) ==
  IF isDirectory
    THEN IF excludeRegex # NullRegex
              /\ (userRegexTest(excludeRegex, itemName) \/ userRegexTest(excludeRegex, relativePath))
           THEN FALSE
           ELSE TRUE
  ELSE IF excludeRegex # NullRegex
            /\ (userRegexTest(excludeRegex, itemName) \/ userRegexTest(excludeRegex, relativePath))
         THEN FALSE
  ELSE IF includeRegex # NullRegex
            /\ ~userRegexTest(includeRegex, itemName) /\ ~userRegexTest(includeRegex, relativePath)
         THEN FALSE
  ELSE TRUE

\* variant: the ignore files are consulted for directories only
shouldIncludeItem_directoriesOnly(itemName, relativePath, isDirectory, files, includeRegex, excludeRegex) ==
  IF isDirectory /\ shouldIgnore(itemName, relativePath, files) THEN FALSE
  ELSE shouldIncludeByPatterns(itemName, relativePath, isDirectory, includeRegex, excludeRegex)

shouldIncludeItem(itemName, relativePath, isDirectory, files, includeRegex, excludeRegex) ==
  IF shouldIgnore(itemName, relativePath, files) THEN FALSE
  ELSE shouldIncludeByPatterns(itemName, relativePath, isDirectory, includeRegex, excludeRegex)

(***************************************************************************)
(* Sibling order: the comparator of generateTree                           *)
(***************************************************************************)
\* String.prototype.localeCompare under the default (root) collation, for
\* the characters that occur in entry names: punctuation sorts before
\* digits, digits before letters; letters compare alphabetically without
\* regard to case, and only when two names are equal up to case does the
\* first case difference decide, lower case first.
CollationOrder ==
  <<"_", "-", ".", "(", "0", "1", "2", "3", "4", "5", "6", "7", "8", "9",
    "a", "b", "c", "d", "e", "f", "g", "h", "i", "j", "k", "l", "m",
    "n", "o", "p", "q", "r", "s", "t", "u", "v", "w", "x", "y", "z">>

UpperCase ==
  <<"A", "B", "C", "D", "E", "F", "G", "H", "I", "J", "K", "L", "M",
    "N", "O", "P", "Q", "R", "S", "T", "U", "V", "W", "X", "Y", "Z">>

LowerCase ==
  <<"a", "b", "c", "d", "e", "f", "g", "h", "i", "j", "k", "l", "m",
    "n", "o", "p", "q", "r", "s", "t", "u", "v", "w", "x", "y", "z">>

isUpper(c) == \E i \in 1..Len(UpperCase) : UpperCase[i] = c

toLower(c) ==
  IF isUpper(c) THEN LowerCase[CHOOSE i \in 1..Len(UpperCase) : UpperCase[i] = c] ELSE c

primaryWeight(c) == CHOOSE i \in 1..Len(CollationOrder) : CollationOrder[i] = toLower(c)

tertiaryWeight(c) == IF isUpper(c) THEN 1 ELSE 0

\* lexicographic comparison of two strings by a weight: -1, 0 or 1
RECURSIVE compareBy(_, _, _)
compareBy(w(_), a, b) ==
  IF Len(a) = 0 /\ Len(b) = 0 THEN 0
  ELSE IF Len(a) = 0 THEN -1
  ELSE IF Len(b) = 0 THEN 1
  ELSE IF w(a[1]) < w(b[1]) THEN -1
  ELSE IF w(a[1]) > w(b[1]) THEN 1
  ELSE compareBy(w, Tail(a), Tail(b))

localeCompare(a, b) ==
  LET primary == compareBy(primaryWeight, a, b)
  IN  IF primary # 0 THEN primary ELSE compareBy(tertiaryWeight, a, b)

\* the printable ASCII characters in code-unit order (U+0020 .. U+007E; the
\* double quote, the backslash and the grave accent, which no entry name
\* here contains, are left out)
AsciiOrder ==
  <<" ", "!", "#", "$", "%", "&", "'", "(", ")", "*", "+", ",", "-", ".", "/",
    "0", "1", "2", "3", "4", "5", "6", "7", "8", "9", ":", ";", "<", "=", ">", "?", "@",
    "A", "B", "C", "D", "E", "F", "G", "H", "I", "J", "K", "L", "M",
    "N", "O", "P", "Q", "R", "S", "T", "U", "V", "W", "X", "Y", "Z",
    "[", "]", "^", "_",
    "a", "b", "c", "d", "e", "f", "g", "h", "i", "j", "k", "l", "m",
    "n", "o", "p", "q", "r", "s", "t", "u", "v", "w", "x", "y", "z",
    "{", "|", "}", "~">>

\* the rank of a character in code-unit order
codeUnit(c) == CHOOSE i \in 1..Len(AsciiOrder) : AsciiOrder[i] = c

\* the comparator with the names compared by code units (a.name < b.name)
compareItems_codeUnit(a, b) ==
  IF a.isDirectory /\ ~b.isDirectory THEN -1
  ELSE IF ~a.isDirectory /\ b.isDirectory THEN 1
  ELSE compareBy(codeUnit, a.name, b.name)

\* (a, b) => { directories first, then a.name.localeCompare(b.name) }
compareItems(a, b) ==
  IF a.isDirectory /\ ~b.isDirectory THEN -1
  ELSE IF ~a.isDirectory /\ b.isDirectory THEN 1
  ELSE localeCompare(a.name, b.name)

\* items.sort(compareItems) of a set of items with pairwise distinct names:
\* the one sequence that the comparator orders.
RECURSIVE sortItems(_)
sortItems(items) ==
  IF items = {} THEN <<>>
  ELSE LET first == CHOOSE x \in items : \A y \in items \ {x} : compareItems(x, y) < 0
       IN  <<first>> \o sortItems(items \ {first})

(***************************************************************************)
(* State                                                                   *)
(***************************************************************************)
VARIABLES
  fs,             \* the project directory: nodes, .gitignore texts, failing paths
  options,        \* this.options
  pc,             \* "new", "discovering", "constructed", "rendering", "done"
  gitignoreFiles, \* the IgnoreFile collection (gitignoreFiles / this.gitignoreFiles)
  dstack,         \* activations of findGitignoresRecursive, innermost last
  examined,       \* log: directories tested by isDirectoryIgnoredBySoFar
  dirReads,       \* log: every fs.readdirSync, in order
  fileReads,      \* log: every fs.readFileSync of a .gitignore, in order
  rstack,         \* activations of generateTree, innermost last
  result,         \* the string generateTree has built so far
  emitted,        \* log: the entry each emitted line stands for
  output,         \* what run() wrote or printed
  query           \* the last call of one method made on its own, and its outcome

vars == <<fs, options, pc, gitignoreFiles, dstack, examined, dirReads, fileReads,
          rstack, result, emitted, output, query>>

(***************************************************************************)
(* The file system (fs.readdirSync, fs.statSync, fs.readFileSync)          *)
(***************************************************************************)
itemRelativePath(relativePath, item) ==
  IF relativePath # <<>> THEN pathJoin(relativePath, item) ELSE item

readdirSync(dir) ==
  {pathBasename(n.path) : n \in {m \in fs.nodes : normalizedItemDir(m.path) = dir}}

readdirThrows(dir) == dir \in fs.badRead

statThrows(path) == path \in fs.badStat

isDirectory(path) == \E n \in fs.nodes : n.path = path /\ n.isDir

readFileThrows(path) == path \in fs.badRead \/ isDirectory(path)

readFileSync(path) == fs.text[path]

(***************************************************************************)
(* Discovery: findAllGitignores, findGitignoresRecursive                   *)
(***************************************************************************)
toPatterns(names) == [i \in 1..Len(names) |-> [pattern |-> names[i], isNegation |-> FALSE]]

createDefaultGitignoreStructure ==
  LET patterns == ALWAYS_IGNORE \o DEFAULT_IGNORE_PATTERNS
                    \o options.exceptDirs \o options.exceptFiles
  IN  << [relativePath |-> <<>>, patterns |-> toPatterns(patterns)] >>

\* a .gitignore counts whatever its content, blank content included
gitignoreFound_blankCounts(relativePath) ==
  /\ GITIGNORE \in readdirSync(relativePath)
  /\ ~readFileThrows(itemRelativePath(relativePath, GITIGNORE))

\* lines 129-167: the .gitignore of a directory whose entries are items
gitignoreFound(relativePath) ==
  /\ GITIGNORE \in readdirSync(relativePath)
  /\ ~readFileThrows(itemRelativePath(relativePath, GITIGNORE))
  /\ Len(trim(readFileSync(itemRelativePath(relativePath, GITIGNORE)))) > 0

gitignoreEntry(relativePath) ==
  LET content == trim(readFileSync(itemRelativePath(relativePath, GITIGNORE)))
      parsed == parseGitignoreContent(content)
      withAlways == IF relativePath = <<>>
                      THEN toPatterns(ALWAYS_IGNORE) \o parsed ELSE parsed
      withExcept == IF relativePath = <<>>
                      THEN withAlways \o toPatterns(options.exceptDirs \o options.exceptFiles)
                      ELSE withAlways
  IN  [relativePath |-> relativePath, patterns |-> withExcept]

\* the collection after findGitignoresRecursive has handled the directory's own .gitignore
afterOwnGitignore(relativePath, files) ==
  IF gitignoreFound(relativePath) THEN Append(files, gitignoreEntry(relativePath)) ELSE files

\* the tail of findAllGitignores, once the recursion has returned
finishDiscovery(files) ==
  IF Len(files) = 0 THEN createDefaultGitignoreStructure ELSE sortByLength(files)

\* The iterations of "for (const item of items)" that reach the ignore test:
\* statSync succeeds, the entry is a directory and its name is not in
\* ALWAYS_IGNORE.  Every other iteration is a bare "continue"; readdirSync
\* promises no order, so the remaining iterations may run in any order.
subdirectories(relativePath) ==
  {item \in readdirSync(relativePath) :
     /\ ~statThrows(itemRelativePath(relativePath, item))
     /\ isDirectory(itemRelativePath(relativePath, item))
     /\ \A i \in 1..Len(ALWAYS_IGNORE) : ALWAYS_IGNORE[i] # item}

\* entering findGitignoresRecursive(currentDir, relativePath, gitignoreFiles)
EnterDiscovery(relativePath, stack) ==
  /\ dirReads' = Append(dirReads, [phase |-> "discovery", dir |-> relativePath])
  /\ IF readdirThrows(relativePath)
       THEN /\ dstack' = stack
            /\ fileReads' = fileReads
            /\ IF stack = <<>>
                 THEN /\ gitignoreFiles' = finishDiscovery(gitignoreFiles)
                      /\ pc' = "constructed"
                 ELSE /\ gitignoreFiles' = gitignoreFiles
                      /\ pc' = "discovering"
       ELSE /\ dstack' = Append(stack, [relativePath |-> relativePath,
                                         items |-> subdirectories(relativePath)])
            /\ fileReads' = IF GITIGNORE \in readdirSync(relativePath)
                              THEN Append(fileReads, itemRelativePath(relativePath, GITIGNORE))
                              ELSE fileReads
            /\ gitignoreFiles' = afterOwnGitignore(relativePath, gitignoreFiles)
            /\ pc' = "discovering"

\* new AsciiTreeGenerator(options): findAllGitignores up to the first directory read
Construct ==
  /\ pc = "new"
  /\ IF options.all
       THEN /\ gitignoreFiles' = createDefaultGitignoreStructure
            /\ pc' = "constructed"
            /\ UNCHANGED <<dstack, dirReads, fileReads>>
       ELSE EnterDiscovery(<<>>, <<>>)
  /\ UNCHANGED <<fs, options, query, examined, rstack, result, emitted, output>>

\* one iteration of "for (const item of items)" on a directory entry, in the
\* innermost activation
DiscoverItem ==
  /\ pc = "discovering"
  /\ dstack # <<>>
  /\ LET top == dstack[Len(dstack)] IN
     \E item \in top.items :
       LET itemPath == itemRelativePath(top.relativePath, item)
           rest == [dstack EXCEPT ![Len(dstack)].items = top.items \ {item}]
           skip == /\ dstack' = rest
                   /\ UNCHANGED <<gitignoreFiles, dirReads, fileReads, pc>>
           log(verdict) ==
             examined' = examined \cup
               {[path |-> itemPath, verdict |-> verdict, soFar |-> gitignoreFiles]}
       IN  IF isDirectoryIgnoredBySoFarThrows(item, itemPath, gitignoreFiles)
             THEN skip /\ log("throws")
           ELSE IF isDirectoryIgnoredBySoFar(item, itemPath, gitignoreFiles)
             THEN skip /\ log("ignored")
           ELSE EnterDiscovery(itemPath, rest) /\ log("clear")
  /\ UNCHANGED <<fs, options, query, rstack, result, emitted, output>>

\* the loop of the innermost activation is over: return to the caller; the
\* outermost return continues findAllGitignores (default structure or sort)
DiscoverReturn ==
  /\ pc = "discovering"
  /\ dstack # <<>>
  /\ dstack[Len(dstack)].items = {}
  /\ dstack' = SubSeq(dstack, 1, Len(dstack) - 1)
  /\ IF Len(dstack) = 1
       THEN /\ gitignoreFiles' = finishDiscovery(gitignoreFiles)
            /\ pc' = "constructed"
       ELSE UNCHANGED <<gitignoreFiles, pc>>
  /\ UNCHANGED <<fs, options, query, examined, dirReads, fileReads, rstack, result, emitted, output>>

(***************************************************************************)
(* Tree Renderer: generateTree, run                                        *)
(***************************************************************************)
\* The box-drawing characters, one token per character
BoxVertical == "U+2502"
BoxUpRight == "U+2514"
BoxVerticalRight == "U+251C"
BoxHorizontal == "U+2500"

ConnectorLast == <<BoxUpRight, BoxHorizontal, BoxHorizontal, " ">>
ConnectorMiddle == <<BoxVerticalRight, BoxHorizontal, BoxHorizontal, " ">>
PrefixLast == <<" ", " ", " ", " ">>
\* the continuation of a directory that is not the last, without its bar
PrefixMiddle_blank == <<" ", " ", " ", " ">>

PrefixMiddle == <<BoxVertical, " ", " ", " ">>

includeRegex == createRegex(options.includePattern)
excludeRegex == createRegex(options.excludePattern)

\* currentDepth < this.options.maxDepth, maxDepth a number or Infinity
withinDepth(currentDepth) == options.maxDepth.inf \/ currentDepth < options.maxDepth.n

\* one try block around the whole map: a failing statSync empties the listing
survivors_abortOnFailure(dirPath) ==
  LET candidates ==
        {[name |-> item,
          relativePath |-> itemRelativePath(dirPath, item),
          isDirectory |-> isDirectory(itemRelativePath(dirPath, item))]
           : item \in readdirSync(dirPath)}
  IN  IF \E c \in candidates : statThrows(c.relativePath) THEN {}
      ELSE {c \in candidates :
              /\ ~shouldIgnoreThrows(c.name, c.relativePath, gitignoreFiles)
              /\ shouldIncludeItem(c.name, c.relativePath, c.isDirectory,
                                   gitignoreFiles, includeRegex, excludeRegex)}

\* the filter applied to files only: every directory is kept
survivors_keepsDirectories(dirPath) ==
  LET candidates ==
        {[name |-> item,
          relativePath |-> itemRelativePath(dirPath, item),
          isDirectory |-> isDirectory(itemRelativePath(dirPath, item))]
           : item \in readdirSync(dirPath)}
  IN  {c \in candidates :
         /\ ~statThrows(c.relativePath)
         /\ ~shouldIgnoreThrows(c.name, c.relativePath, gitignoreFiles)
         /\ \/ c.isDirectory
            \/ shouldIncludeItem(c.name, c.relativePath, c.isDirectory,
                                 gitignoreFiles, includeRegex, excludeRegex)}

\* allItems.map(...).filter(item => item && item.shouldInclude): the
\* statSync and the shouldIncludeItem of an entry are inside one try block,
\* whose catch turns the entry into null
survivors(dirPath) ==
  LET candidates ==
        {[name |-> item,
          relativePath |-> itemRelativePath(dirPath, item),
          isDirectory |-> isDirectory(itemRelativePath(dirPath, item))]
           : item \in readdirSync(dirPath)}
  IN  {c \in candidates :
         /\ ~statThrows(c.relativePath)
         /\ ~shouldIgnoreThrows(c.name, c.relativePath, gitignoreFiles)
         /\ shouldIncludeItem(c.name, c.relativePath, c.isDirectory,
                              gitignoreFiles, includeRegex, excludeRegex)}

\* shouldIgnore narrowing this.gitignoreFiles itself to the files in scope
afterShouldIgnore_filtersInPlace(files, relativePaths) ==
  SelectSeq(files, LAMBDA gitignore :
     \A relativePath \in relativePaths :
        isPathInDirectory(normalizedItemDir(relativePath), gitignore.relativePath))

\* this.gitignoreFiles after shouldIgnore has been called for each of the
\* paths: filter returns a new array and sort works on that array
afterShouldIgnore(files, relativePaths) == files

\* variant: the directory is listed a second time on entry
EnterRender_listsTwice(dirPath, prefix, currentDepth, stack) ==
  /\ dirReads' = dirReads \o << [phase |-> "render", dir |-> dirPath],
                                [phase |-> "render", dir |-> dirPath] >>
  /\ gitignoreFiles' = gitignoreFiles
  /\ rstack' = IF readdirThrows(dirPath) THEN stack
               ELSE Append(stack, [dirPath |-> dirPath,
                                   items |-> sortItems(survivors(dirPath)),
                                   index |-> 1,
                                   prefix |-> prefix,
                                   currentDepth |-> currentDepth])

\* entering generateTree(dirPath, prefix, projectRoot, currentDepth)
EnterRender(dirPath, prefix, currentDepth, stack) ==
  /\ dirReads' = Append(dirReads, [phase |-> "render", dir |-> dirPath])
  /\ gitignoreFiles' =
       IF readdirThrows(dirPath) THEN gitignoreFiles
       ELSE afterShouldIgnore(gitignoreFiles,
              {itemRelativePath(dirPath, item) :
                 item \in {i \in readdirSync(dirPath) :
                             ~statThrows(itemRelativePath(dirPath, i))}})
  /\ rstack' = IF readdirThrows(dirPath) THEN stack
               ELSE Append(stack, [dirPath |-> dirPath,
                                   items |-> sortItems(survivors(dirPath)),
                                   index |-> 1,
                                   prefix |-> prefix,
                                   currentDepth |-> currentDepth])

\* the tail of run(): the header line and the tree, printed or written
finishRun(tree) ==
  [written |-> ~options.dryRun,
   file |-> options.outputName,
   text |-> fs.projectName \o <<"/", "\n">> \o tree]

\* run() up to the first directory read of generateTree('.', '', null, 0)
Run ==
  /\ pc = "constructed"
  /\ EnterRender(<<>>, <<>>, 0, <<>>)
  /\ IF readdirThrows(<<>>)
       THEN pc' = "done" /\ output' = finishRun(result)
       ELSE pc' = "rendering" /\ UNCHANGED output
  /\ UNCHANGED <<fs, options, query, dstack, examined, fileReads, result, emitted>>

\* one iteration of items.forEach in the innermost activation
RenderItem ==
  /\ pc = "rendering"
  /\ rstack # <<>>
  /\ LET top == rstack[Len(rstack)] IN
     /\ top.index <= Len(top.items)
     /\ LET item == top.items[top.index]
            isLast == top.index = Len(top.items)
            connector == IF isLast THEN ConnectorLast ELSE ConnectorMiddle
            advanced == [rstack EXCEPT ![Len(rstack)].index = top.index + 1]
        IN  /\ result' = result \o top.prefix \o connector \o item.name \o <<"\n">>
            /\ emitted' = Append(emitted, [relativePath |-> item.relativePath,
                                           isDirectory |-> item.isDirectory,
                                           isLast |-> isLast,
                                           depth |-> top.currentDepth])
            /\ IF item.isDirectory /\ withinDepth(top.currentDepth)
                 THEN EnterRender(item.relativePath,
                                  top.prefix \o (IF isLast THEN PrefixLast ELSE PrefixMiddle),
                                  top.currentDepth + 1, advanced)
                 ELSE rstack' = advanced /\ UNCHANGED <<dirReads, gitignoreFiles>>
  /\ UNCHANGED <<fs, options, query, pc, dstack, examined, fileReads, output>>

\* forEach of the innermost activation is over: return result to the caller;
\* the outermost return continues run()
RenderReturn ==
  /\ pc = "rendering"
  /\ rstack # <<>>
  /\ rstack[Len(rstack)].index > Len(rstack[Len(rstack)].items)
  /\ rstack' = SubSeq(rstack, 1, Len(rstack) - 1)
  /\ IF Len(rstack) = 1
       THEN pc' = "done" /\ output' = finishRun(result)
       ELSE UNCHANGED <<pc, output>>
  /\ UNCHANGED <<fs, options, query, gitignoreFiles, dstack, examined, dirReads, fileReads,
                 result, emitted>>

(***************************************************************************)
(* Initial states: bounded project directories and options                 *)
(***************************************************************************)
MaxDepthOpt == 2

Infinity == [inf |-> TRUE, n |-> 0]
Depth(n) == [inf |-> FALSE, n |-> n]

Dir(path) == [path |-> path, isDir |-> TRUE]
File(path) == [path |-> path, isDir |-> FALSE]
Lines(lines) == join(lines, "\n")

\* a project directory: entries, and the .gitignore files gi = {[dir, text]}
MakeFS(entries, gi, badRead, badStat) ==
  [projectName |-> <<"p">>,
   nodes |-> entries \cup {File(itemRelativePath(g.dir, GITIGNORE)) : g \in gi},
   text |-> [q \in {itemRelativePath(g.dir, GITIGNORE) : g \in gi} |->
               (CHOOSE g \in gi : itemRelativePath(g.dir, GITIGNORE) = q).text],
   badRead |-> badRead,
   badStat |-> badStat]

DefaultOptions ==
  [all |-> FALSE, exceptDirs |-> <<>>, exceptFiles |-> <<>>,
   outputName |-> ALWAYS_IGNORE[2], dryRun |-> FALSE, maxDepth |-> Infinity,
   includePattern |-> NullRegex, excludePattern |-> NullRegex]

\* names
dotGit == <<".", "g", "i", "t">>
oTxt == <<"o", ".", "t", "x", "t">>
kTmp == <<"k", ".", "t", "m", "p">>
nF == <<"f">>
nFe == <<"f", "e">>
nS == <<"s">>
nX == <<"x">>
nA == <<"a">>
nB == <<"B">>
pFS == pathJoin(nF, nS)

\* The general project: .git/c, o.txt, project-ascii-tree.txt, a, B,
\* f/x, f/s/k.tmp, fe/x
GeneralEntries ==
  { Dir(dotGit), File(pathJoin(dotGit, <<"c">>)), File(oTxt), File(ALWAYS_IGNORE[2]),
    File(nA), File(nB),
    Dir(nF), File(pathJoin(nF, nX)), Dir(pFS), File(pathJoin(pFS, kTmp)),
    Dir(nFe), File(pathJoin(nFe, nX)) }

Absent == <<"absent">>

RootTexts ==
  { Absent,
    <<" ", "\n">>,
    Lines(<< nFe >>),
    Lines(<< <<"!", ".", "g", "i", "t">>, <<"B">> >>),
    Lines(<< <<"*", ".", "t", "m", "p">>, <<"s", "/">> >>),
    Lines(<< <<"#", " ", "c">>, <<"/", "f", "/", "s", "/">>, <<"!", "x">> >>),
    Lines(<< <<"k", "*", "(">> >>) }

FTexts ==
  { Absent,
    Lines(<< <<"s", "/">> >>),
    Lines(<< <<"!", "k", ".", "t", "m", "p">>, <<"x">> >>),
    Lines(<< <<"!", "s">> >>) }

STexts ==
  { Absent,
    Lines(<< <<"!", "k", ".", "t", "m", "p">> >>),
    Lines(<< <<"*">> >>) }

Gitignores(rootText, fText, sText) ==
  {g \in {[dir |-> <<>>, text |-> rootText], [dir |-> nF, text |-> fText],
          [dir |-> pFS, text |-> sText]} : g.text # Absent}

GeneralFS(rootText, fText, sText, badRead, badStat) ==
  MakeFS(GeneralEntries, Gitignores(rootText, fText, sText), badRead, badStat)

\* slice 1: every combination of .gitignore texts, the discovery options vary
IgnoreSlice ==
  { [fs |-> GeneralFS(r, f, s, {}, {}), options |-> o] :
      r \in RootTexts, f \in FTexts, s \in STexts,
      o \in { DefaultOptions,
              [DefaultOptions EXCEPT !.exceptDirs = <<nFe>>],
              [DefaultOptions EXCEPT !.exceptFiles = <<nA>>, !.outputName = oTxt],
              [DefaultOptions EXCEPT !.all = TRUE] } }

\* slice 2: the rendering options vary
RenderTexts ==
  { <<Absent, Absent, Absent>>,
    <<Lines(<< <<"!", ".", "g", "i", "t">>, <<"B">> >>), Absent,
      Lines(<< <<"!", "k", ".", "t", "m", "p">> >>)>>,
    <<Lines(<< <<"*", ".", "t", "m", "p">>, <<"s", "/">> >>),
      Lines(<< <<"!", "s">> >>), Absent>> }

UserRegexes ==
  { NullRegex,
    [kind |-> "contains", text |-> <<"x">>],
    [kind |-> "suffix", text |-> <<".", "t", "m", "p">>],
    [kind |-> "contains", text |-> <<"f", "/">>] }

RenderSlice ==
  { [fs |-> GeneralFS(t[1], t[2], t[3], {}, {}),
     options |-> [DefaultOptions EXCEPT !.maxDepth = d, !.includePattern = inc,
                                        !.excludePattern = exc, !.dryRun = dry]] :
      t \in RenderTexts, d \in {Infinity} \cup {Depth(n) : n \in 0..MaxDepthOpt},
      inc \in UserRegexes, exc \in UserRegexes, dry \in BOOLEAN }

\* slice 3: entries that cannot be read or stat-ed
FailureSlice ==
  { [fs |-> GeneralFS(t[1], t[2], t[3], badRead, badStat), options |-> DefaultOptions] :
      t \in RenderTexts,
      badRead \in { {}, {<<>>}, {nF}, {itemRelativePath(nF, GITIGNORE)}, {GITIGNORE} },
      badStat \in { {}, {nF}, {nA}, {pFS} } }

\* slice 4: concrete projects
nDist == <<"d", "i", "s", "t">>
nFrontend == <<"f", "r", "o", "n", "t", "e", "n", "d">>
nImportantTmp == <<"i", "m", "p", "o", "r", "t", "a", "n", "t", ".", "t", "m", "p">>
nATmp == <<"a", ".", "t", "m", "p">>
nBTmp == <<"b", ".", "t", "m", "p">>
nXJs == <<"x", ".", "j", "s">>
nSrc == <<"s", "r", "c">>
nAJs == <<"a", ".", "j", "s">>
nATestJs == <<"a", ".", "t", "e", "s", "t", ".", "j", "s">>
nACss == <<"a", ".", "c", "s", "s">>

\* root .gitignore [dist, *.tmp], frontend/.gitignore [!important.tmp]
EndToEndFS ==
  MakeFS({ Dir(nDist), File(pathJoin(nDist, nXJs)), File(nATmp), Dir(nFrontend),
           File(pathJoin(nFrontend, nBTmp)), File(pathJoin(nFrontend, nImportantTmp)) },
         { [dir |-> <<>>, text |-> Lines(<< nDist, <<"*", ".", "t", "m", "p">> >>)],
           [dir |-> nFrontend, text |-> Lines(<< <<"!">> \o nImportantTmp >>)] },
         {}, {})

\* src/a.js, src/a.test.js, src/a.css
SourcesFS ==
  MakeFS({ Dir(nSrc), File(pathJoin(nSrc, nAJs)), File(pathJoin(nSrc, nATestJs)),
           File(pathJoin(nSrc, nACss)) }, {}, {}, {})

\* sibling names that differ in letter case
LetterCaseFS ==
  MakeFS({ File(<<"b">>), File(<<"B">>), File(<<"a">>), File(<<"C">>),
           Dir(<<"Z">>), Dir(<<"y">>), Dir(<<"z">>), File(<<"Z", "/", "B">>),
           File(<<"Z", "/", "a">>) }, {}, {}, {})

\* two ignore files whose scopes a/b and abcd differ in depth and in length
nAB == pathJoin(nA, <<"b">>)
nAbcd == <<"a", "b", "c", "d">>

ScopeLengthFS ==
  MakeFS({ Dir(nA), Dir(nAB), File(pathJoin(nAB, nX)), Dir(pathJoin(nAB, nS)),
           File(pathJoin(pathJoin(nAB, nS), nX)),
           Dir(nAbcd), File(pathJoin(nAbcd, nX)), File(pathJoin(nAbcd, kTmp)) },
         { [dir |-> nAB, text |-> Lines(<< nX >>)],
           [dir |-> nAbcd, text |-> Lines(<< kTmp >>)] },
         {}, {})

\* root .gitignore [dist/]: dist is a regular file, src/dist a directory
DirMarkerFS ==
  MakeFS({ File(nDist), Dir(nSrc), Dir(pathJoin(nSrc, nDist)),
           File(pathJoin(pathJoin(nSrc, nDist), nXJs)), File(pathJoin(nSrc, nAJs)) },
         { [dir |-> <<>>, text |-> Lines(<< nDist \o <<"/">> >>)] },
         {}, {})

\* the same names with the kinds exchanged: dist a directory, src/dist a
\* regular file
DirMarkerTwinFS ==
  MakeFS({ Dir(nDist), File(pathJoin(nDist, nXJs)), Dir(nSrc),
           File(pathJoin(nSrc, nDist)), File(pathJoin(nSrc, nAJs)) },
         { [dir |-> <<>>, text |-> Lines(<< nDist \o <<"/">> >>)] },
         {}, {})

ConcreteSlice ==
  { [fs |-> EndToEndFS, options |-> [DefaultOptions EXCEPT !.maxDepth = d]] :
      d \in {Infinity} \cup {Depth(n) : n \in 0..MaxDepthOpt} }
  \cup
  { [fs |-> SourcesFS,
     options |-> [DefaultOptions EXCEPT !.includePattern = inc, !.excludePattern = exc]] :
      inc \in {NullRegex, [kind |-> "suffix", text |-> <<".", "j", "s">>]},
      exc \in {NullRegex, [kind |-> "contains", text |-> <<"t", "e", "s", "t">>]} }
  \cup
  { [fs |-> LetterCaseFS, options |-> DefaultOptions],
    [fs |-> ScopeLengthFS, options |-> DefaultOptions],
    [fs |-> DirMarkerFS, options |-> DefaultOptions],
    [fs |-> DirMarkerTwinFS, options |-> DefaultOptions] }

NoOutput == [written |-> FALSE, file |-> <<>>, text |-> <<>>]
NoQuery == [asked |-> FALSE, itemName |-> <<>>, relativePath |-> <<>>,
            throws |-> FALSE, verdict |-> FALSE]

Scenarios == IgnoreSlice \cup RenderSlice \cup FailureSlice \cup ConcreteSlice

Init ==
  /\ \E sc \in Scenarios : fs = sc.fs /\ options = sc.options
  /\ pc = "new"
  /\ gitignoreFiles = <<>>
  /\ dstack = <<>>
  /\ examined = {}
  /\ dirReads = <<>>
  /\ fileReads = <<>>
  /\ rstack = <<>>
  /\ result = <<>>
  /\ emitted = <<>>
  /\ output = NoOutput
  /\ query = NoQuery

Next == Construct \/ DiscoverItem \/ DiscoverReturn \/ Run \/ RenderItem \/ RenderReturn

Spec == Init /\ [][Next]_vars

(***************************************************************************)
(* The ignore engine on its own: shouldIgnore applied to bounded           *)
(* collections and candidates                                              *)
(***************************************************************************)
MaxPatterns == 3

Pat(text) == [pattern |-> text, isNegation |-> FALSE]
Neg(text) == [pattern |-> text, isNegation |-> TRUE]

RootPool == { Pat(nX), Pat(<<"*", ".", "t", "m", "p">>), Neg(nS), Pat(pFS) }
FPool == { Pat(nX), Neg(kTmp), Pat(nS) }
SPool == { Neg(<<"*">>), Pat(<<"k", "*", "(">>) }
FePool == { Pat(nX) }

\* no IgnoreFile for the scope, or one with n patterns of the pool; a root
\* IgnoreFile is as discovery builds it, ALWAYS_IGNORE first
FileChoices(scopePath, pool, n) ==
  (IF n = 0 THEN {<<>>} ELSE {})
  \cup
  { << [relativePath |-> scopePath,
        patterns |-> (IF scopePath = <<>> THEN toPatterns(ALWAYS_IGNORE) ELSE <<>>) \o q] >>
      : q \in [1..n -> pool] }

\* collections in ascending scope-path length, each scope at most once, with
\* at most MaxPatterns patterns read from the ignore files altogether
Collections ==
  UNION { { r \o f \o e \o s : r \in FileChoices(<<>>, RootPool, n[1]),
                               f \in FileChoices(nF, FPool, n[2]),
                               e \in FileChoices(nFe, FePool, n[4]),
                               s \in FileChoices(pFS, SPool, n[3]) }
            : n \in { m \in (0..MaxPatterns) \X (0..MaxPatterns) \X (0..MaxPatterns)
                               \X (0..MaxPatterns)
                        : m[1] + m[2] + m[3] + m[4] <= MaxPatterns } }
  \ {<<>>}

\* candidates: the relative paths of entries; itemName is the last segment
Candidates ==
  { nS, pathJoin(nF, nX), pathJoin(nFe, nX), pFS, pathJoin(pFS, kTmp),
    pathJoin(pFS, nX), pathJoin(nFe, nS), kTmp }

InitResolve ==
  /\ gitignoreFiles \in Collections
  /\ pc = "constructed"
  /\ fs = MakeFS({}, {}, {}, {})
  /\ options = DefaultOptions
  /\ dstack = <<>>
  /\ examined = {}
  /\ dirReads = <<>>
  /\ fileReads = <<>>
  /\ rstack = <<>>
  /\ result = <<>>
  /\ emitted = <<>>
  /\ output = NoOutput
  /\ query = NoQuery

\* one call this.shouldIgnore(itemName, relativePath) per behaviour
Resolve ==
  /\ pc = "constructed"
  /\ ~query.asked
  /\ \E relativePath \in Candidates :
       LET itemName == pathBasename(relativePath) IN
       query' = IF shouldIgnoreThrows(itemName, relativePath, gitignoreFiles)
                  THEN [asked |-> TRUE, itemName |-> itemName, relativePath |-> relativePath,
                        throws |-> TRUE, verdict |-> FALSE]
                  ELSE [asked |-> TRUE, itemName |-> itemName, relativePath |-> relativePath,
                        throws |-> FALSE,
                        verdict |-> shouldIgnore(itemName, relativePath, gitignoreFiles)]
  /\ UNCHANGED <<fs, options, pc, gitignoreFiles, dstack, examined, dirReads, fileReads,
                 rstack, result, emitted, output>>

SpecResolve == InitResolve /\ [][Resolve]_vars

(***************************************************************************)
(* The parser on its own: parseGitignoreContent applied to bounded texts   *)
(***************************************************************************)
MaxLines == 3

\* the lines a text is made of
LinePool ==
  { <<"!", "!", "x">>,
    <<"/", "/", "x">>,
    <<"x", "/", "/">>,
    <<"/">>,
    <<"!", "/">>,
    <<"x">>,
    <<"!", "x">>,
    <<"/", "x", "/">>,
    <<"#", " ", "c">>,
    <<>>,
    <<" ", "x", " ">>,
    <<"!", "#", " ", "c">>,
    <<"/", "!", "x">>,
    <<"a", "/", "b", "/">> }

\* the texts of at most MaxLines lines
ParseInputs ==
  UNION { {Lines(ls) : ls \in [1..n -> LinePool]} : n \in 1..MaxLines }

NotParsed(content) == [asked |-> FALSE, content |-> content, patterns |-> <<>>]

InitParse ==
  /\ query \in {NotParsed(content) : content \in ParseInputs}
  /\ pc = "new"
  /\ fs = MakeFS({}, {}, {}, {})
  /\ options = DefaultOptions
  /\ gitignoreFiles = <<>>
  /\ dstack = <<>>
  /\ examined = {}
  /\ dirReads = <<>>
  /\ fileReads = <<>>
  /\ rstack = <<>>
  /\ result = <<>>
  /\ emitted = <<>>
  /\ output = NoOutput

\* one call this.parseGitignoreContent(content) per behaviour
Parse ==
  /\ pc = "new"
  /\ ~query.asked
  /\ query' = [asked |-> TRUE, content |-> query.content,
               patterns |-> parseGitignoreContent(query.content)]
  /\ UNCHANGED <<fs, options, pc, gitignoreFiles, dstack, examined, dirReads, fileReads,
                 rstack, result, emitted, output>>

SpecParse == InitParse /\ [][Parse]_vars

(***************************************************************************)
(* One line of a root .gitignore on its own: parseGitignoreContent,        *)
(* matchesPattern and shouldIgnore applied to a line and a candidate       *)
(***************************************************************************)
\* the lines
MatchLines ==
  { <<"*", ".", "l", "o", "g">>, <<"a", "?", "l", "o", "g">>, <<"*", "e", "*">>,
    <<"s", "r", "c", "/", "*">>, <<"?", ".", "l", "o", "g">>,
    <<"*", ".", "l", "?", "g">>, <<"s", "*", "/", "*", "g">>,
    <<"b", "u", "i", "l", "d">>, <<"/", "b", "u", "i", "l", "d">>,
    <<"d", "i", "s", "t", "/">>, <<"/", "d", "i", "s", "t", "/">>, <<"!", "x">>,
    <<"/", "!", "x">>, <<"#", "c">>, <<"/", "#", "c">>, <<"s", "r", "c">>,
    <<"/", "s", "r", "c">>, <<"/">>,
    <<"d", "e", "e", "p", "/", "n", "e", "s", "t", "e", "d">>,
    <<"/", "d", "e", "e", "p", "/", "n", "e", "s", "t", "e", "d">>,
    <<"/", "*", ".", "l", "o", "g">>, <<"x">>, <<"/", "x">>, <<"/", " ", "x">> }

\* the candidates: relative paths; itemName is the last segment
MatchPaths ==
  { <<"a", ".", "l", "o", "g">>, <<"s", "r", "c", "/", "a", ".", "l", "o", "g">>,
    <<"s", "r", "c", "/", "d", "e", "e", "p", "/", "n", "e", "s", "t", "e", "d", "/", "a", ".", "l", "o", "g">>,
    <<"a", "x", "l", "o", "g">>, <<"b", "u", "i", "l", "d">>,
    <<"s", "r", "c", "/", "b", "u", "i", "l", "d">>,
    <<"s", "r", "c", "/", "b", "u", "i", "l", "d", "/", "x">>, <<"d", "i", "s", "t">>,
    <<"s", "r", "c">>, <<"x">>, <<"!", "x">>, <<"#", "c">>,
    <<"d", "e", "e", "p", "/", "n", "e", "s", "t", "e", "d">>,
    <<"s", "r", "c", "/", "x">> }

NotMatched(line, relativePath) ==
  [asked |-> FALSE, line |-> line, relativePath |-> relativePath,
   itemName |-> pathBasename(relativePath), patterns |-> <<>>,
   throws |-> FALSE, matches |-> FALSE, verdict |-> FALSE]

\* the collection discovery builds from a root .gitignore with this content
rootCollection(content) ==
  << [relativePath |-> <<>>,
      patterns |-> toPatterns(ALWAYS_IGNORE) \o parseGitignoreContent(content)] >>

InitMatch ==
  /\ query \in {NotMatched(line, relativePath) : line \in MatchLines, relativePath \in MatchPaths}
  /\ pc = "new"
  /\ fs = MakeFS({}, {}, {}, {})
  /\ options = DefaultOptions
  /\ gitignoreFiles = <<>>
  /\ dstack = <<>>
  /\ examined = {}
  /\ dirReads = <<>>
  /\ fileReads = <<>>
  /\ rstack = <<>>
  /\ result = <<>>
  /\ emitted = <<>>
  /\ output = NoOutput

\* the line is parsed, its pattern is matched against the candidate, and
\* shouldIgnore gives the candidate's verdict under the root ignore file
Match ==
  /\ pc = "new"
  /\ ~query.asked
  /\ LET patterns == parseGitignoreContent(query.line)
         files == rootCollection(query.line)
         throws == shouldIgnoreThrows(query.itemName, query.relativePath, files)
     IN  /\ gitignoreFiles' = files
         /\ query' = [query EXCEPT
              !.asked = TRUE,
              !.patterns = patterns,
              !.throws = throws,
              !.matches = /\ ~throws
                          /\ patterns # <<>>
                          /\ matchesPattern(patterns[1].pattern, query.itemName,
                                            query.relativePath),
              !.verdict = ~throws /\ shouldIgnore(query.itemName, query.relativePath, files)]
  /\ UNCHANGED <<fs, options, pc, dstack, examined, dirReads, fileReads,
                 rstack, result, emitted, output>>

SpecMatch == InitMatch /\ [][Match]_vars

(***************************************************************************)
(* Properties                                                              *)
(***************************************************************************)
\* Scope and order as the specification words them, on path segments
SegmentsOf(p) == IF p = <<>> THEN <<>> ELSE split(p, Sep)

IsSegmentPrefix(a, b) == Len(a) <= Len(b) /\ SubSeq(b, 1, Len(a)) = a

ParentSegments(relativePath) ==
  SubSeq(SegmentsOf(relativePath), 1, Len(SegmentsOf(relativePath)) - 1)

InScope(scopePath, relativePath) ==
  IsSegmentPrefix(SegmentsOf(scopePath), ParentSegments(relativePath))

ScopeRelative(scopePath, relativePath) ==
  join(SubSeq(SegmentsOf(relativePath), Len(SegmentsOf(scopePath)) + 1,
              Len(SegmentsOf(relativePath))), Sep)

\* pattern j of file i of the collection is in scope of and matches the candidate
MatchAt(files, i, j, itemName, relativePath) ==
  /\ InScope(files[i].relativePath, relativePath)
  /\ matchesPattern(files[i].patterns[j].pattern, itemName,
                    ScopeRelative(files[i].relativePath, relativePath))

\* the positions <<file, pattern>> of a collection
Slots(files) ==
  UNION { {<<i, j>> : j \in 1..Len(files[i].patterns)} : i \in 1..Len(files) }

\* slot b is applied after slot a
AppliedAfter(files, a, b) ==
  \/ Len(files[b[1]].relativePath) > Len(files[a[1]].relativePath)
  \/ b[1] = a[1] /\ b[2] > a[2]

LastMatchExcludes(files, itemName, relativePath) ==
  \E a \in Slots(files) :
     /\ MatchAt(files, a[1], a[2], itemName, relativePath)
     /\ ~files[a[1]].patterns[a[2]].isNegation
     /\ \A b \in Slots(files) :
          MatchAt(files, b[1], b[2], itemName, relativePath) => ~AppliedAfter(files, a, b)

\* C1: shouldIgnore returns excluded iff the last pattern that matches the
\* candidate, in the sequence of the in-scope ignore files by ascending
\* scope-path length and of each file's patterns in file order, is
\* non-negated; not-excluded when no pattern matches.
C1_LastMatchWins ==
  (query.asked /\ ~query.throws) =>
     (query.verdict = LastMatchExcludes(gitignoreFiles, query.itemName, query.relativePath))

\* a non-negated root pattern and a negated pattern of a deeper file both
\* match the candidate, and the deeper negation decides
C1_Witness ==
  /\ query.asked /\ ~query.throws /\ ~query.verdict
  /\ \E a \in Slots(gitignoreFiles), b \in Slots(gitignoreFiles) :
       /\ MatchAt(gitignoreFiles, a[1], a[2], query.itemName, query.relativePath)
       /\ MatchAt(gitignoreFiles, b[1], b[2], query.itemName, query.relativePath)
       /\ ~gitignoreFiles[a[1]].patterns[a[2]].isNegation
       /\ gitignoreFiles[b[1]].patterns[b[2]].isNegation
       /\ Len(gitignoreFiles[a[1]].relativePath) < Len(gitignoreFiles[b[1]].relativePath)

\* the collection without its k-th IgnoreFile
WithoutFile(files, k) == SubSeq(files, 1, k - 1) \o SubSeq(files, k + 1, Len(files))

\* C2: an ignore file of a non-root directory S changes the verdict only of
\* candidates whose parent directory is S or lies under S; for every other
\* candidate (the entry S itself, a sibling whose name merely begins with
\* the string S) the outcome with and without that file is the same.  The
\* root ignore file is in scope for every candidate.
C2_ScopeBounded ==
  query.asked =>
    \A k \in 1..Len(gitignoreFiles) :
      LET scopePath == gitignoreFiles[k].relativePath
          without == WithoutFile(gitignoreFiles, k)
          applicable == applicableGitignores(query.relativePath, gitignoreFiles)
      IN  /\ (scopePath # <<>> /\ ~InScope(scopePath, query.relativePath)) =>
                /\ shouldIgnoreThrows(query.itemName, query.relativePath, without) = query.throws
                /\ ~query.throws =>
                     shouldIgnore(query.itemName, query.relativePath, without) = query.verdict
          /\ scopePath = <<>> => \E i \in 1..Len(applicable) : applicable[i] = gitignoreFiles[k]

\* the candidate's parent directory begins with the string S without being S
\* or under S, a pattern of S's file would exclude the candidate by its name,
\* and the candidate is not excluded
C2_Witness ==
  /\ query.asked /\ ~query.throws /\ ~query.verdict
  /\ \E k \in 1..Len(gitignoreFiles) :
       /\ gitignoreFiles[k].relativePath # <<>>
       /\ ~InScope(gitignoreFiles[k].relativePath, query.relativePath)
       /\ startsWith(normalizedItemDir(query.relativePath), gitignoreFiles[k].relativePath)
       /\ \E j \in 1..Len(gitignoreFiles[k].patterns) :
            /\ ~gitignoreFiles[k].patterns[j].isNegation
            /\ gitignoreFiles[k].patterns[j].pattern = query.itemName

\* path is dir or lies below dir
InOrBelow(path, dir) == IsSegmentPrefix(SegmentsOf(dir), SegmentsOf(path))

\* the directories whose verdict, under the ignore files discovered when
\* discovery tested them, was "excluded"
ExcludedWhenExamined ==
  {e.path : e \in {x \in examined :
      /\ ~shouldIgnoreThrows(pathBasename(x.path), x.path, x.soFar)
      /\ shouldIgnore(pathBasename(x.path), x.path, x.soFar)}}

\* C3: discovery never recurses into a directory that the ignore files
\* discovered so far exclude: no directory in or below it is read by
\* discovery, no .gitignore in or below it is read, and none is in the
\* collection.
C3_NoDescentIntoExcluded ==
  \A d \in ExcludedWhenExamined :
     /\ \A i \in 1..Len(dirReads) :
          dirReads[i].phase = "discovery" => ~InOrBelow(dirReads[i].dir, d)
     /\ \A i \in 1..Len(fileReads) : ~InOrBelow(fileReads[i], d)
     /\ \A i \in 1..Len(gitignoreFiles) : ~InOrBelow(gitignoreFiles[i].relativePath, d)

\* discovery is over, and a directory it found excluded holds a non-empty
\* .gitignore of its own
C3_Witness ==
  /\ pc = "constructed"
  /\ \E d \in ExcludedWhenExamined :
       /\ File(itemRelativePath(d, GITIGNORE)) \in fs.nodes
       /\ Len(trim(fs.text[itemRelativePath(d, GITIGNORE)])) > 0

\* the entries that have a line in the tree
RenderedPaths == {emitted[i].relativePath : i \in 1..Len(emitted)}

\* the lines of the tree built so far, without the newline that ends each
ResultLines ==
  IF result = <<>> THEN <<>>
  ELSE LET parts == split(result, "\n") IN SubSeq(parts, 1, Len(parts) - 1)

\* some line of the tree is a prefix, a connector and this name
HasLineFor(name) ==
  \E i \in 1..Len(ResultLines) :
     \/ endsWith(ResultLines[i], ConnectorLast \o name)
     \/ endsWith(ResultLines[i], ConnectorMiddle \o name)

\* generateTree has listed the directory that holds the entry and could
\* stat the entry and evaluate every pattern in its scope
Listed(n) ==
  /\ \E i \in 1..Len(dirReads) :
       dirReads[i] = [phase |-> "render", dir |-> normalizedItemDir(n.path)]
  /\ ~readdirThrows(normalizedItemDir(n.path))
  /\ ~statThrows(n.path)
  /\ ~shouldIgnoreThrows(pathBasename(n.path), n.path, gitignoreFiles)

RootSlots(files) == {a \in Slots(files) : files[a[1]].relativePath = <<>>}

DeeperSlots(files) == {a \in Slots(files) : files[a[1]].relativePath # <<>>}

\* a non-negated root pattern matches the entry
RootExcludes(n) ==
  \E a \in RootSlots(gitignoreFiles) :
     /\ ~gitignoreFiles[a[1]].patterns[a[2]].isNegation
     /\ MatchAt(gitignoreFiles, a[1], a[2], pathBasename(n.path), n.path)

\* a negation of a deeper in-scope file matches the entry, and no pattern
\* applied after it does
DeeperNegationLast(n) ==
  \E b \in DeeperSlots(gitignoreFiles) :
     /\ gitignoreFiles[b[1]].patterns[b[2]].isNegation
     /\ MatchAt(gitignoreFiles, b[1], b[2], pathBasename(n.path), n.path)
     /\ \A c \in Slots(gitignoreFiles) :
          MatchAt(gitignoreFiles, c[1], c[2], pathBasename(n.path), n.path)
            => ~AppliedAfter(gitignoreFiles, b, c)

NoNegationMatches(n) ==
  \A b \in Slots(gitignoreFiles) :
     MatchAt(gitignoreFiles, b[1], b[2], pathBasename(n.path), n.path)
       => ~gitignoreFiles[b[1]].patterns[b[2]].isNegation

\* the user's regular expressions as the specification words them
RegexAbsent(regex) == regex.kind = "null"

RegexHits(regex, n) ==
  userRegexTest(regex, pathBasename(n.path)) \/ userRegexTest(regex, n.path)

PassesUserRegexes(n) ==
  /\ RegexAbsent(options.excludePattern) \/ ~RegexHits(options.excludePattern, n)
  /\ n.isDir \/ RegexAbsent(options.includePattern) \/ RegexHits(options.includePattern, n)

\* C4: end to end, an entry that a non-negated root pattern matches and that
\* a later-applied negation of a deeper in-scope ignore file re-includes is
\* rendered, an entry matched only by the non-negated root pattern is not;
\* for root .gitignore [dist, *.tmp], frontend/.gitignore [!important.tmp]
\* the tree has no line for dist, x.js, a.tmp or b.tmp and has a line for
\* important.tmp under frontend.
C4_NegationReincludes ==
  pc = "done" =>
    /\ \A n \in fs.nodes :
         (Listed(n) /\ RootExcludes(n)) =>
            /\ (DeeperNegationLast(n) /\ PassesUserRegexes(n)) => n.path \in RenderedPaths
            /\ NoNegationMatches(n) => n.path \notin RenderedPaths
    /\ (fs = EndToEndFS /\ options = DefaultOptions) =>
         /\ RenderedPaths \cap {nDist, pathJoin(nDist, nXJs), nATmp,
                                pathJoin(nFrontend, nBTmp)} = {}
         /\ ~HasLineFor(nDist) /\ ~HasLineFor(nXJs) /\ ~HasLineFor(nATmp)
         /\ ~HasLineFor(nBTmp)
         /\ pathJoin(nFrontend, nImportantTmp) \in RenderedPaths
         /\ \E i \in 2..Len(ResultLines) :
              /\ ResultLines[i] = PrefixMiddle \o ConnectorLast \o nImportantTmp
              /\ \E j \in 1..(i - 1) : ResultLines[j] = ConnectorMiddle \o nFrontend

\* the run on the concrete project is over
C4_Witness ==
  /\ pc = "done" /\ fs = EndToEndFS /\ options = DefaultOptions
  /\ \E n \in fs.nodes : Listed(n) /\ RootExcludes(n) /\ DeeperNegationLast(n)
  /\ \E n \in fs.nodes : Listed(n) /\ RootExcludes(n) /\ NoNegationMatches(n)

\* C5: with maxDepth = d (d >= 1) no entry nested more than d levels below
\* the project root has a line; with maxDepth = 1 only the entries located
\* directly in the project root have one.
C5_DepthLimit ==
  (~options.maxDepth.inf /\ options.maxDepth.n >= 1) =>
     \A i \in 1..Len(emitted) :
        Len(SegmentsOf(emitted[i].relativePath)) <= options.maxDepth.n

\* C6: an entry the ignore engine does not exclude is kept iff the exclude
\* expression is absent or matches neither its name nor its relative path
\* and, for a file only, the include expression is absent or matches its
\* name or its relative path; directories are never tested against the
\* include expression.
C6_UserRegexFilter ==
  pc = "done" =>
    \A n \in fs.nodes :
       (Listed(n) /\ ~shouldIgnore(pathBasename(n.path), n.path, gitignoreFiles)) =>
          (n.path \in RenderedPaths <=> PassesUserRegexes(n))

\* include \.js$ and exclude test on src/a.js, src/a.test.js, src/a.css:
\* the directory src, which the include expression does not match, and
\* a.js are kept; a.test.js, which both expressions match, is dropped
C6_Witness ==
  /\ pc = "done" /\ fs = SourcesFS
  /\ ~RegexAbsent(options.includePattern) /\ ~RegexAbsent(options.excludePattern)
  /\ RenderedPaths = {nSrc, pathJoin(nSrc, nAJs)}
  /\ ~RegexHits(options.includePattern, Dir(nSrc))
  /\ RegexHits(options.includePattern, File(pathJoin(nSrc, nATestJs)))
  /\ RegexHits(options.excludePattern, File(pathJoin(nSrc, nATestJs)))
  /\ Listed(File(pathJoin(nSrc, nATestJs)))

\* lines i < j of the tree stand for entries of the same directory
Siblings(i, j) ==
  /\ i < j
  /\ normalizedItemDir(emitted[i].relativePath) = normalizedItemDir(emitted[j].relativePath)

LineName(i) == pathBasename(emitted[i].relativePath)

\* C7 as claimed: siblings are emitted directories first and, inside each
\* group, in case-sensitive code-unit order of the name.
C7_CodeUnitOrder ==
  \A i \in 1..Len(emitted), j \in 1..Len(emitted) :
     Siblings(i, j) =>
        /\ emitted[i].isDirectory \/ ~emitted[j].isDirectory
        /\ emitted[i].isDirectory = emitted[j].isDirectory
             => compareBy(codeUnit, LineName(i), LineName(j)) < 0

\* C7 as amended: siblings are emitted directories first and, inside each
\* group, in ascending localeCompare order of the name: alphabetical without
\* regard to letter case, lower case before upper case between names equal
\* up to case.
C7_LocaleOrder ==
  \A i \in 1..Len(emitted), j \in 1..Len(emitted) :
     Siblings(i, j) =>
        /\ emitted[i].isDirectory \/ ~emitted[j].isDirectory
        /\ emitted[i].isDirectory = emitted[j].isDirectory
             => localeCompare(LineName(i), LineName(j)) < 0

\* a finished tree with two sibling directories and two sibling files whose
\* code-unit order is the reverse of their order in the tree
C7_Witness ==
  /\ pc = "done"
  /\ \E i \in 1..Len(emitted), j \in 1..Len(emitted) :
       /\ Siblings(i, j) /\ emitted[i].isDirectory /\ emitted[j].isDirectory
       /\ compareBy(codeUnit, LineName(i), LineName(j)) > 0
  /\ \E i \in 1..Len(emitted), j \in 1..Len(emitted) :
       /\ Siblings(i, j) /\ ~emitted[i].isDirectory /\ ~emitted[j].isDirectory
       /\ compareBy(codeUnit, LineName(i), LineName(j)) > 0

\* line i stands for the last survivor of its directory
IsLastSurvivor(i) == ~\E j \in 1..Len(emitted) : Siblings(i, j)

LineOf(path) == CHOOSE i \in 1..Len(emitted) : emitted[i].relativePath = path

\* the ancestors of an entry, outermost first
Ancestors(path) ==
  [m \in 1..(Len(SegmentsOf(path)) - 1) |-> join(SubSeq(SegmentsOf(path), 1, m), Sep)]

RECURSIVE Flatten(_)
Flatten(seqs) == IF Len(seqs) = 0 THEN <<>> ELSE seqs[1] \o Flatten(Tail(seqs))

\* one four-character unit per ancestor: four spaces below a last survivor,
\* a vertical bar and three spaces otherwise
ExpectedPrefix(path) ==
  Flatten([m \in 1..Len(Ancestors(path)) |->
             IF IsLastSurvivor(LineOf(Ancestors(path)[m]))
               THEN <<" ", " ", " ", " ">>
               ELSE <<"U+2502", " ", " ", " ">>])

ExpectedConnector(i) ==
  IF IsLastSurvivor(i) THEN <<"U+2514", "U+2500", "U+2500", " ">>
  ELSE <<"U+251C", "U+2500", "U+2500", " ">>

\* the entries generateTree lists and keeps
Survivors ==
  {n.path : n \in {m \in fs.nodes :
      /\ Listed(m)
      /\ ~shouldIgnore(pathBasename(m.path), m.path, gitignoreFiles)
      /\ PassesUserRegexes(m)}}

\* C8: the tree is one line per surviving entry, each line being prefix,
\* connector, name and a newline; the connector is the corner iff the entry
\* is the last survivor of its directory; the prefix has one four-character
\* unit per ancestor, four spaces below an ancestor that was the last
\* survivor of its directory and a bar plus three spaces otherwise.
C8_LineForm ==
  pc = "done" =>
    /\ Len(ResultLines) = Len(emitted)
    /\ result = Flatten([i \in 1..Len(ResultLines) |-> ResultLines[i] \o <<"\n">>])
    /\ RenderedPaths = Survivors
    /\ \A i \in 1..Len(emitted), j \in 1..Len(emitted) :
         emitted[i].relativePath = emitted[j].relativePath => i = j
    /\ \A i \in 1..Len(emitted) :
         /\ \A m \in 1..Len(Ancestors(emitted[i].relativePath)) :
              Ancestors(emitted[i].relativePath)[m] \in RenderedPaths
         /\ ResultLines[i] = ExpectedPrefix(emitted[i].relativePath)
                               \o ExpectedConnector(i) \o LineName(i)
         /\ Len(ExpectedPrefix(emitted[i].relativePath))
              = 4 * (Len(SegmentsOf(emitted[i].relativePath)) - 1)

\* a finished tree with a line two levels down whose outer ancestor is not
\* the last survivor of its directory and whose inner ancestor is
C8_Witness ==
  /\ pc = "done"
  /\ \E i \in 1..Len(emitted) :
       /\ Len(SegmentsOf(emitted[i].relativePath)) = 3
       /\ ~IsLastSurvivor(LineOf(Ancestors(emitted[i].relativePath)[1]))
       /\ IsLastSurvivor(LineOf(Ancestors(emitted[i].relativePath)[2]))
       /\ ~IsLastSurvivor(i)

\* C9: whatever the .gitignore files contain and whatever outputName is,
\* neither the directory .git nor the file the run writes its output to
\* (outputName, in the project root) has a line in the tree.
C9_AlwaysIgnored ==
  \A i \in 1..Len(emitted) :
     /\ emitted[i].relativePath # dotGit
     /\ emitted[i].relativePath # options.outputName

\* some negation pattern in scope of the entry matches it
Reincluded(path) ==
  \E b \in Slots(gitignoreFiles) :
     /\ gitignoreFiles[b[1]].patterns[b[2]].isNegation
     /\ MatchAt(gitignoreFiles, b[1], b[2], pathBasename(path), path)

ExceptNames == Range(options.exceptDirs \o options.exceptFiles)

\* C10: no entry whose name is one of exceptDirs or exceptFiles, and nothing
\* beneath such a directory, has a line in the tree, unless a negation
\* pattern of an in-scope ignore file re-includes the entry of that name.
C10_ExceptNamesIgnored ==
  \A i \in 1..Len(emitted) :
     LET segments == SegmentsOf(emitted[i].relativePath) IN
     \A m \in 1..Len(segments) :
        segments[m] \in ExceptNames => Reincluded(join(SubSeq(segments, 1, m), Sep))

\* every directory above the entry, and the entry itself, as nodes
SelfAndAncestors(n) == {m \in fs.nodes : InOrBelow(n.path, m.path)}

\* what the option all leaves in force for an entry: the always-ignore
\* names, the except names, the user's regular expressions and maxDepth
KeptUnderAll(n) ==
  /\ \A m \in SelfAndAncestors(n) :
       /\ pathBasename(m.path) \notin Range(ALWAYS_IGNORE) \cup ExceptNames
       /\ PassesUserRegexes(m)
       /\ ~statThrows(m.path)
       /\ m.isDir => ~readdirThrows(m.path)
  /\ options.maxDepth.inf \/ Len(SegmentsOf(n.path)) <= options.maxDepth.n

\* C11: with all = true no .gitignore is read and neither .gitignore
\* patterns nor the default ignore patterns are applied: every entry is
\* rendered, subject only to the always-ignore entries, the except names,
\* the regular-expression filters and maxDepth.
C11_AllRendersEverything ==
  (options.all /\ pc = "done") =>
     /\ fileReads = <<>>
     /\ \A n \in fs.nodes : KeptUnderAll(n) => n.path \in RenderedPaths

\* the characters of a text that are not white space
NonBlank(text) == {i \in 1..Len(text) : text[i] \notin Whitespace}

\* the directory holds a .gitignore that can be read and is not blank
HoldsIgnoreFile(dir) ==
  /\ File(itemRelativePath(dir, GITIGNORE)) \in fs.nodes
  /\ itemRelativePath(dir, GITIGNORE) \notin fs.badRead
  /\ NonBlank(fs.text[itemRelativePath(dir, GITIGNORE)]) # {}

\* the directories discovery has listed
Visited ==
  {dirReads[i].dir : i \in {j \in 1..Len(dirReads) :
      dirReads[j].phase = "discovery" /\ dirReads[j].dir \notin fs.badRead}}

\* the synthetic root-scope IgnoreFile: always-ignore patterns, the default
\* list, exceptDirs, exceptFiles, none negated
SyntheticCollection ==
  LET names == ALWAYS_IGNORE \o DEFAULT_IGNORE_PATTERNS
                 \o options.exceptDirs \o options.exceptFiles
  IN  << [relativePath |-> <<>>, patterns |-> [i \in 1..Len(names) |-> Pat(names[i])]] >>

\* C12: with all = false, findAllGitignores returns the synthetic single
\* root-scope IgnoreFile iff no visited directory holds a .gitignore that is
\* non-empty after trimming; a blank .gitignore yields no IgnoreFile, and
\* the collection has exactly the scopes of the visited directories that
\* hold a non-blank one.
C12_DefaultsIffNoneFound ==
  (~options.all /\ pc \in {"constructed", "rendering", "done"}) =>
     /\ (gitignoreFiles = SyntheticCollection) <=> (\A d \in Visited : ~HoldsIgnoreFile(d))
     /\ (\E d \in Visited : HoldsIgnoreFile(d)) =>
          {gitignoreFiles[i].relativePath : i \in 1..Len(gitignoreFiles)}
            = {d \in Visited : HoldsIgnoreFile(d)}

\* discovery is over, the only .gitignore it met is blank, and the
\* collection is the synthetic one
C12_Witness ==
  /\ ~options.all /\ pc = "constructed"
  /\ File(GITIGNORE) \in fs.nodes
  /\ NonBlank(fs.text[GITIGNORE]) = {}
  /\ Len(fs.text[GITIGNORE]) > 0
  /\ gitignoreFiles = SyntheticCollection

\* the number of path segments of a scope directory
ScopeDepth(g) == Len(SegmentsOf(g.relativePath))

\* C13: the sequence findAllGitignores returns is sorted by scope depth
\* ascending: of any two IgnoreFiles, the one whose scope directory has
\* fewer path segments comes first, whatever the lengths of the names.
C13_SortedByDepth ==
  pc \in {"constructed", "rendering", "done"} =>
    \A i \in 1..Len(gitignoreFiles), j \in 1..Len(gitignoreFiles) :
       ScopeDepth(gitignoreFiles[i]) < ScopeDepth(gitignoreFiles[j]) => i < j

\* a sequence of IgnoreFiles in ascending order of the length of the scope path
SortedByLength(files) ==
  \A i \in 1..Len(files), j \in 1..Len(files) :
     i < j => Len(files[i].relativePath) <= Len(files[j].relativePath)

\* C14 as claimed: the collection is in ascending scope-path-length order in
\* every state in which it can be queried, the intermediate states of
\* discovery included: after each append of findGitignoresRecursive and at
\* each call of isDirectoryIgnoredBySoFar.
C14_SortedInEveryState ==
  /\ SortedByLength(gitignoreFiles)
  /\ \A e \in examined : SortedByLength(e.soFar)

\* C14 as amended: the collection findAllGitignores returns is in ascending
\* scope-path-length order, and every query, during discovery and after it,
\* applies the in-scope IgnoreFiles in that order.
C14_SortedWhenApplied ==
  /\ pc \in {"constructed", "rendering", "done"} =>
       /\ SortedByLength(gitignoreFiles)
       /\ \A n \in fs.nodes : SortedByLength(applicableGitignores(n.path, gitignoreFiles))
  /\ \A e \in examined : SortedByLength(soFarApplicable(e.path, e.soFar))

\* discovery is over; it tested a directory while the collection was out of
\* order, with an ignore file in scope
C14_Witness ==
  /\ pc = "constructed"
  /\ \E e \in examined :
       /\ ~SortedByLength(e.soFar)
       /\ soFarApplicable(e.path, e.soFar) # <<>>

\* the orders in which the IgnoreFiles of a collection can have been discovered
DiscoveryOrders(files) ==
  { [i \in 1..Len(files) |-> files[p[i]]] :
      p \in {q \in [1..Len(files) -> 1..Len(files)] :
               \A a \in 1..Len(files), b \in 1..Len(files) : q[a] = q[b] => a = b} }

\* the IgnoreFiles of a collection in scope of the candidate, in the order
\* the collection holds them
InScopeInOrder(files, relativePath) ==
  SelectSeq(files, LAMBDA g : InScope(g.relativePath, relativePath))

\* C15: for a collection with pairwise distinct scope directories, the
\* outcome of shouldIgnore for a candidate is the same for every permutation
\* of the collection, two same-depth files swapped included.
C15_OrderOfDiscoveryIrrelevant ==
  query.asked =>
    \A files \in DiscoveryOrders(gitignoreFiles) :
       /\ shouldIgnoreThrows(query.itemName, query.relativePath, files) = query.throws
       /\ ~query.throws =>
            shouldIgnore(query.itemName, query.relativePath, files) = query.verdict

\* some permutation holds the in-scope IgnoreFiles in an order in which
\* applying them as they come would give the other verdict, and another
\* swaps two IgnoreFiles of the same depth
C15_Witness ==
  /\ query.asked /\ ~query.throws
  /\ \E files \in DiscoveryOrders(gitignoreFiles) :
       applyGitignores(InScopeInOrder(files, query.relativePath),
                       query.itemName, query.relativePath, FALSE) # query.verdict
  /\ \E i \in 1..Len(gitignoreFiles), j \in 1..Len(gitignoreFiles) :
       /\ i # j
       /\ Len(SegmentsOf(gitignoreFiles[i].relativePath))
            = Len(SegmentsOf(gitignoreFiles[j].relativePath))

\* the lines of a text that parseGitignoreContent keeps, trimmed
KeptLines(content) ==
  SelectSeq([i \in 1..Len(split(content, "\n")) |-> trim(split(content, "\n")[i])],
            LAMBDA line : line # <<>> /\ line[1] # "#")

\* a kept line without the "!" that marks a negation
AfterMark(line) == IF line[1] = "!" THEN SubSeq(line, 2, Len(line)) ELSE line

Normalized(text) ==
  text = <<>> \/ (text[1] # "!" /\ text[1] # "/" /\ text[Len(text)] # "/")

\* C16 as claimed: every Pattern parseGitignoreContent produces has a text
\* that does not start with "!", does not start with "/" and does not end
\* with "/", for lines such as !!x, //x, x//, / and !/ too.
C16_TextNormalized ==
  query.asked => \A i \in 1..Len(query.patterns) : Normalized(query.patterns[i].pattern)

\* no second mark follows the first: behind the optional "!" there is no
\* "!", "/!" or "//" at the start and no "//" at the end
SingleMarks(rest) ==
  /\ ~startsWith(rest, <<"!">>) /\ ~startsWith(rest, <<"/", "!">>)
  /\ ~startsWith(rest, <<"/", "/">>) /\ ~endsWith(rest, <<"/", "/">>)

\* C16 as amended: parseGitignoreContent removes one leading "!", one
\* trailing "/" and one leading "/" and no more: the text of a Pattern does
\* not start with "!" or "/" and does not end with "/" when no second mark
\* follows the first in its line (x, !x, /x/, / and !/); the lines !!x, //x
\* and x// give the texts !x, /x and x/.
C16_OneMarkRemoved ==
  query.asked =>
    LET kept == KeptLines(query.content) IN
    \A i \in 1..Len(query.patterns) :
       /\ i <= Len(kept)
       /\ SingleMarks(AfterMark(kept[i])) => Normalized(query.patterns[i].pattern)
       /\ kept[i] = <<"!", "!", "x">> => query.patterns[i].pattern = <<"!", "x">>
       /\ kept[i] = <<"/", "/", "x">> => query.patterns[i].pattern = <<"/", "x">>
       /\ kept[i] = <<"x", "/", "/">> => query.patterns[i].pattern = <<"x", "/">>
       /\ kept[i] \in {<<"/">>, <<"!", "/">>} => query.patterns[i].pattern = <<>>

\* a text with the line /x/ and the line !/ has been parsed
C16_Witness ==
  /\ query.asked
  /\ \E i \in 1..Len(query.patterns), j \in 1..Len(query.patterns) :
       /\ KeptLines(query.content)[i] = <<"/", "x", "/">>
       /\ KeptLines(query.content)[j] = <<"!", "/">>
       /\ query.patterns[i].pattern = <<"x">>

\* the marks parseGitignoreContent can remove in front of and behind a text
FrontMarks == {<<>>, <<"!">>, <<"/">>, <<"!", "/">>}
BackMarks == {<<>>, <<"/">>}

\* the Pattern is what a kept line gives: its text is the line without
\* marks at its ends, its flag says whether the line starts with "!"
PatternOfLine(pattern, line) ==
  /\ pattern.isNegation = (line[1] = "!")
  /\ \E front \in FrontMarks, back \in BackMarks : line = front \o pattern.pattern \o back

\* C17: parseGitignoreContent returns exactly one Pattern per line that is
\* non-empty after trimming and does not start with "#", in the order of
\* the lines; isNegation is true iff the trimmed line starts with "!".
\* Blank and comment lines contribute nothing.
C17_OnePatternPerLine ==
  query.asked =>
    LET kept == KeptLines(query.content) IN
    /\ Len(query.patterns) = Len(kept)
    /\ \A i \in 1..Len(kept) : PatternOfLine(query.patterns[i], kept[i])

\* a comment line stands between two lines that give different Patterns,
\* the second a negation
C17_Witness ==
  /\ query.asked
  /\ Len(split(query.content, "\n")) = 3
  /\ startsWith(split(query.content, "\n")[2], <<"#">>)
  /\ Len(query.patterns) = 2
  /\ ~query.patterns[1].isNegation /\ query.patterns[2].isNegation
  /\ query.patterns[1].pattern # query.patterns[2].pattern

\* the entries generateTree has met: it has listed the directory that
\* holds them and could stat them
MetByRenderer ==
  {n \in fs.nodes :
     /\ \E i \in 1..Len(dirReads) :
          dirReads[i] = [phase |-> "render", dir |-> normalizedItemDir(n.path)]
     /\ ~readdirThrows(normalizedItemDir(n.path))
     /\ ~statThrows(n.path)}

\* C18: no line of an ignore file produces an error: matching any pattern
\* text, wildcard patterns with characters such as "(" included, gives true
\* or false; no directory is skipped by discovery and no entry is dropped
\* from the tree because evaluating a pattern failed.
C18_NoPatternError ==
  /\ \A e \in examined : e.verdict # "throws"
  /\ \A n \in MetByRenderer :
       ~shouldIgnoreThrows(pathBasename(n.path), n.path, gitignoreFiles)

\* the directories above an entry
DirsAbove(n) == SelfAndAncestors(n) \ {n}

\* no filesystem error is on the way to the entry: it and the directories
\* above it can be stat-ed, and those directories and the root can be read
Reachable(n) ==
  /\ ~readdirThrows(<<>>)
  /\ \A m \in SelfAndAncestors(n) : ~statThrows(m.path)
  /\ \A m \in DirsAbove(n) : ~readdirThrows(m.path)

\* the collection excludes the entry, the user's regular expressions reject
\* it, or evaluating a pattern for it fails
Filtered(n) ==
  \/ shouldIgnoreThrows(pathBasename(n.path), n.path, gitignoreFiles)
  \/ shouldIgnore(pathBasename(n.path), n.path, gitignoreFiles)
  \/ ~PassesUserRegexes(n)

\* the directories discovery tested
ExaminedPaths == {e.path : e \in examined}

\* the directories discovery has to test: directories that can be stat-ed,
\* not named in ALWAYS_IGNORE, in a directory it has listed
ToExamine ==
  {n \in fs.nodes :
     /\ n.isDir /\ ~statThrows(n.path)
     /\ pathBasename(n.path) \notin Range(ALWAYS_IGNORE)
     /\ normalizedItemDir(n.path) \in Visited}

C20_NoOutputWhenRootFails ==
  readdirThrows(<<>>) => (~output.written /\ output.text = <<>>)

\* the slots of the collection whose pattern is in scope of and matches the
\* candidate of the query
MatchingSlots ==
  {a \in Slots(gitignoreFiles) :
     MatchAt(gitignoreFiles, a[1], a[2], query.itemName, query.relativePath)}

NegationAt(a) == gitignoreFiles[a[1]].patterns[a[2]].isNegation

\* C21: negation alone never excludes: when no non-negated pattern of an
\* in-scope ignore file matches the candidate the verdict is not-excluded,
\* however many negation patterns match it; a matching negation applied to
\* a running verdict of not-excluded leaves it not-excluded.
C21_NegationAloneNeverExcludes ==
  (query.asked /\ ~query.throws) =>
     /\ (\A a \in MatchingSlots : NegationAt(a)) => ~query.verdict
     /\ \A a \in MatchingSlots :
          NegationAt(a) =>
            ~applyPatterns(<<gitignoreFiles[a[1]].patterns[a[2]]>>, query.itemName,
                           ScopeRelative(gitignoreFiles[a[1]].relativePath, query.relativePath),
                           FALSE)

\* two negation patterns and no other pattern match the candidate
C21_Witness ==
  /\ query.asked /\ ~query.throws /\ ~query.verdict
  /\ \A a \in MatchingSlots : NegationAt(a)
  /\ \E a \in MatchingSlots, b \in MatchingSlots : a # b

\* C22: when a non-negated pattern of the root ignore file matches the
\* candidate and no negation pattern of the collection matches it, the
\* verdict is excluded, whatever subdirectory ignore files the collection
\* holds besides.
C22_RootExclusionStands ==
  (query.asked /\ ~query.throws) =>
     ((/\ \E a \in MatchingSlots : gitignoreFiles[a[1]].relativePath = <<>> /\ ~NegationAt(a)
       /\ \A a \in MatchingSlots : ~NegationAt(a))
        => query.verdict)

\* a root pattern excludes a nested candidate; the collection holds two
\* subdirectory ignore files, one of them in scope of the candidate
C22_Witness ==
  /\ query.asked /\ ~query.throws /\ query.verdict
  /\ \E a \in MatchingSlots : gitignoreFiles[a[1]].relativePath = <<>> /\ ~NegationAt(a)
  /\ \A a \in MatchingSlots : ~NegationAt(a)
  /\ Len(gitignoreFiles) >= 3
  /\ \E i \in 1..Len(gitignoreFiles) :
       /\ gitignoreFiles[i].relativePath # <<>>
       /\ InScope(gitignoreFiles[i].relativePath, query.relativePath)

\* the positions of "*" in a pattern
StarsOf(p) == {i \in 1..Len(p) : p[i] = "*"}

\* the piece g of a pattern, without "*", fits the string at an offset:
\* "?" stands for any one character, every other character for itself
PieceAt(g, s, off) ==
  /\ off >= 0 /\ off + Len(g) <= Len(s)
  /\ \A i \in 1..Len(g) : g[i] = "?" \/ g[i] = s[off + i]

\* the anchored expansion of a pattern with at most two "*" matches the
\* whole string: the pieces between the "*" fit in order, the first at the
\* start and the last at the end
Expands(p, s) ==
  IF Cardinality(StarsOf(p)) = 0 THEN Len(p) = Len(s) /\ PieceAt(p, s, 0)
  ELSE LET k == CHOOSE i \in StarsOf(p) : \A j \in StarsOf(p) : i <= j
           l == CHOOSE i \in StarsOf(p) : \A j \in StarsOf(p) : i >= j
           first == SubSeq(p, 1, k - 1)
           middle == SubSeq(p, k + 1, l - 1)
           last == SubSeq(p, l + 1, Len(p))
       IN  /\ PieceAt(first, s, 0)
           /\ PieceAt(last, s, Len(s) - Len(last))
           /\ Len(first) + Len(last) <= Len(s)
           /\ k < l =>
                \E off \in Len(first)..(Len(s) - Len(last) - Len(middle)) :
                   PieceAt(middle, s, off)

\* the prefixes of a path cut at a separator, the whole path included
PrefixesAtSeparator(path) ==
  {join(SubSeq(SegmentsOf(path), 1, i), Sep) : i \in 1..Len(SegmentsOf(path))}

LogPaths ==
  { <<"a", ".", "l", "o", "g">>,
    <<"s", "r", "c", "/", "a", ".", "l", "o", "g">>,
    <<"s", "r", "c", "/", "d", "e", "e", "p", "/", "n", "e", "s", "t", "e", "d", "/",
      "a", ".", "l", "o", "g">> }

\* C23: a wildcard pattern matches a candidate, at any depth, whenever (and
\* only when) its anchored expansion matches the candidate's name, its path
\* or a prefix of the path cut at a separator; *.log in the root ignore
\* file excludes a.log, src/a.log and src/deep/nested/a.log.
C23_WildcardAnyDepth ==
  (query.asked /\ ~query.throws /\ query.patterns # <<>>) =>
     LET p == query.patterns[1].pattern IN
     /\ (hasWildcard(p) /\ Cardinality(StarsOf(p)) <= 2) =>
          /\ query.matches =
               (\/ Expands(p, query.itemName)
                \/ \E prefix \in PrefixesAtSeparator(query.relativePath) : Expands(p, prefix))
          /\ (query.matches /\ ~query.patterns[1].isNegation) => query.verdict
     /\ (query.line = <<"*", ".", "l", "o", "g">> /\ query.relativePath \in LogPaths) =>
          query.verdict

\* *.log has been applied to src/deep/nested/a.log
C23_Witness ==
  /\ query.asked /\ query.verdict
  /\ query.line = <<"*", ".", "l", "o", "g">>
  /\ Len(SegmentsOf(query.relativePath)) = 4

\* the outcome of shouldIgnore for the candidate of the query under a root
\* .gitignore with this content: "raises", "excluded" or "kept"
OutcomeUnder(content) ==
  IF shouldIgnoreThrows(query.itemName, query.relativePath, rootCollection(content))
    THEN "raises"
  ELSE IF shouldIgnore(query.itemName, query.relativePath, rootCollection(content))
    THEN "excluded"
  ELSE "kept"

RecordedOutcome ==
  IF query.throws THEN "raises" ELSE IF query.verdict THEN "excluded" ELSE "kept"

\* the line of the query is "/" followed by a text that does not start with "/"
AnchoredLine ==
  /\ query.asked /\ query.line # <<>> /\ query.line[1] = "/"
  /\ ~startsWith(Tail(query.line), <<"/">>)

VerdictNow(path) ==
  IF shouldIgnoreThrows(pathBasename(path), path, gitignoreFiles) THEN "throws"
  ELSE IF shouldIgnore(pathBasename(path), path, gitignoreFiles) THEN "ignored"
  ELSE "clear"

\* C25: for every directory discovery tested, the verdict
\* isDirectoryIgnoredBySoFar computed from the collection discovered so far
\* equals the verdict shouldIgnore computes for it from the final
\* collection: discovery skips a directory iff the renderer's ignore engine
\* excludes it.
C25_SoFarVerdictIsFinal ==
  pc \in {"constructed", "rendering", "done"} =>
    \A e \in examined : e.verdict = VerdictNow(e.path)

\* a sequence back to front
Reversed(s) == [i \in 1..Len(s) |-> s[Len(s) + 1 - i]]

\* C26: isDirectoryIgnoredBySoFar(name, path, C) gives what shouldIgnore
\* gives for the same name and path when the generator's collection is C,
\* in whatever order C holds its IgnoreFiles.
C26_ImplementationsAgree ==
  query.asked =>
    \A files \in {gitignoreFiles, Reversed(gitignoreFiles)} :
       /\ isDirectoryIgnoredBySoFarThrows(query.itemName, query.relativePath, files)
            = query.throws
       /\ ~query.throws =>
            isDirectoryIgnoredBySoFar(query.itemName, query.relativePath, files)
              = query.verdict

\* both give excluded for a candidate that a negation of one ignore file
\* matches and a non-negated pattern of a deeper ignore file, applied after
\* it, excludes
C26_Witness ==
  /\ query.asked /\ ~query.throws /\ query.verdict
  /\ isDirectoryIgnoredBySoFar(query.itemName, query.relativePath, gitignoreFiles)
  /\ \E a \in MatchingSlots, b \in MatchingSlots :
       /\ ~NegationAt(a) /\ NegationAt(b)
       /\ AppliedAfter(gitignoreFiles, b, a)
       /\ gitignoreFiles[a[1]].relativePath # gitignoreFiles[b[1]].relativePath

\* the node of an emitted line
NodeOf(i) == CHOOSE n \in fs.nodes : n.path = emitted[i].relativePath

\* the entries that have a line before line i
RenderedBefore(i) == {emitted[j].relativePath : j \in 1..(i - 1)}

\* C27: a line is emitted for an entry only if every directory between it
\* and the project root was emitted before it, is neither excluded by the
\* ignore engine nor removed by the exclude regex, and lies within the
\* depth limit; generateTree lists, and so queries the engine about the
\* entries of, emitted directories only.
C27_ClosedUnderAncestors ==
  /\ \A i \in 1..Len(emitted) :
       \A m \in DirsAbove(NodeOf(i)) :
          /\ m.path \in RenderedBefore(i)
          /\ ~Filtered(m)
          /\ options.maxDepth.inf \/ Len(SegmentsOf(m.path)) <= options.maxDepth.n
  /\ \A i \in 1..Len(dirReads) :
       (dirReads[i].phase = "render" /\ dirReads[i].dir # <<>>) =>
          dirReads[i].dir \in RenderedPaths

\* the run is over; an entry that a negation re-includes, not excluded on
\* its own, lies in an excluded directory and has no line
C27_Witness ==
  /\ pc = "done"
  /\ \E n \in fs.nodes :
       /\ ~Filtered(n) /\ Reincluded(n.path)
       /\ \E m \in DirsAbove(n) : Reachable(m) /\ Filtered(m)
       /\ n.path \notin RenderedPaths
       /\ \A i \in 1..Len(dirReads) :
            dirReads[i].phase = "render" => dirReads[i].dir # normalizedItemDir(n.path)

\* the directory reads discovery has made
DiscoveryReads == SelectSeq(dirReads, LAMBDA r : r.phase = "discovery")

\* C28: once discovery has returned the collection is never changed: every
\* call of shouldIgnore and the whole of generateTree leave its length, the
\* order of its elements and each IgnoreFile's scope path and patterns as
\* they are, and discovery is not run again during rendering.
C28_CollectionFrozen ==
  [][(pc \in {"constructed", "rendering", "done"}) =>
       (/\ gitignoreFiles' = gitignoreFiles
        /\ DiscoveryReads' = DiscoveryReads
        /\ fileReads' = fileReads
        /\ examined' = examined)]_vars

\* the run is over: generateTree has queried shouldIgnore for more than
\* three entries under a collection of three IgnoreFiles
C28_Witness ==
  /\ pc = "done"
  /\ Len(gitignoreFiles) = 3
  /\ Len(emitted) > 3

\* the names the two directory-marker projects give once to a regular file
\* and once to a directory
MarkedPaths == { nDist, pathJoin(nSrc, nDist) }

\* C29: the verdict of the ignore files does not depend on whether the
\* candidate is a directory or a regular file: an entry generateTree meets
\* and the user's regular expressions pass has its line exactly when
\* shouldIgnore keeps its name and relative path, whatever its kind; with
\* root .gitignore [dist/] neither dist nor src/dist has a line, be it the
\* regular file or the directory of that name.
C29_KindIrrelevant ==
  pc = "done" =>
    /\ \A n \in MetByRenderer :
         (/\ PassesUserRegexes(n)
          /\ ~shouldIgnoreThrows(pathBasename(n.path), n.path, gitignoreFiles)) =>
           (n.path \in RenderedPaths
              <=> ~shouldIgnore(pathBasename(n.path), n.path, gitignoreFiles))
    /\ fs \in {DirMarkerFS, DirMarkerTwinFS} =>
         /\ RenderedPaths \cap MarkedPaths = {}
         /\ pathJoin(nSrc, nAJs) \in RenderedPaths

\* the run is over: the renderer has met the regular file dist, which the
\* pattern dist/ excludes, and listed src beside it
C29_Witness ==
  /\ pc = "done"
  /\ fs = DirMarkerFS
  /\ File(nDist) \in MetByRenderer
  /\ shouldIgnore(nDist, nDist, gitignoreFiles)
  /\ nSrc \in RenderedPaths

\* the directory reads rendering has made
RenderReads == SelectSeq(dirReads, LAMBDA r : r.phase = "render")

\* no element occurs twice in the sequence
NoRepeats(seq) == \A i \in 1..Len(seq), j \in 1..Len(seq) : seq[i] = seq[j] => i = j

\* discovery reads no directory and no .gitignore twice, rendering reads no
\* directory twice, and every read of rendering comes after all of
\* discovery, when the constructor has returned
ReadsOnceInOrder ==
  /\ NoRepeats(DiscoveryReads)
  /\ NoRepeats(fileReads)
  /\ NoRepeats(RenderReads)
  /\ \A i \in 1..Len(dirReads), j \in 1..Len(dirReads) :
       (dirReads[i].phase = "render" /\ dirReads[j].phase = "discovery") => j < i
  /\ RenderReads # <<>> => (pc \in {"rendering", "done"} /\ dstack = <<>>)
  /\ pc \in {"new", "discovering"} => (rstack = <<>> /\ emitted = <<>>)

\* the directories of the project
Directories == {n \in fs.nodes : n.isDir}

\* an upper bound on the steps still to come: two for every entry that
\* rendering has not listed and one for every activation of generateTree,
\* and before that two for every directory that discovery has not tested
\* and one for every activation of findGitignoresRecursive
RenderingAhead == 2 * (Cardinality(fs.nodes) - Len(emitted)) + Len(rstack)
DiscoveryAhead == 2 * Cardinality(Directories \ {n \in Directories : n.path \in ExaminedPaths})
                    + Len(dstack)
StepsAhead ==
  CASE pc = "done" -> 0
    [] pc = "rendering" -> RenderingAhead
    [] pc = "constructed" -> 2 * Cardinality(fs.nodes) + 2
    [] pc = "discovering" -> 2 * Cardinality(fs.nodes) + 3 + DiscoveryAhead
    [] pc = "new" -> 2 * Cardinality(fs.nodes) + 2 * Cardinality(Directories) + 5

\* a statement is left to execute unless the run is over: an activation
\* of the phase is on the stack, at an iteration of its loop or at its end
CanStep ==
  /\ pc \in {"new", "discovering", "constructed", "rendering", "done"}
  /\ pc = "discovering" => dstack # <<>>
  /\ pc = "rendering" =>
       (rstack # <<>> /\ rstack[Len(rstack)].index \in 1..(Len(rstack[Len(rstack)].items) + 1))

\* C30: on every finite directory tree discovery followed by rendering
\* terminates: every step lowers a natural number and no state but the
\* final one is without a next step; discovery reads each directory at
\* most once and each .gitignore at most once, rendering reads each
\* directory at most once, and rendering starts only after discovery has
\* finished.
C30_TerminatesReadingOnce ==
  /\ [](ReadsOnceInOrder /\ CanStep /\ StepsAhead \in Nat)
  /\ [][StepsAhead' < StepsAhead]_vars

\* the run is over: discovery has read three directories and two
\* .gitignore files, and rendering has then read three directories
C30_Witness ==
  /\ pc = "done"
  /\ Len(DiscoveryReads) >= 3
  /\ Len(fileReads) >= 2
  /\ Len(RenderReads) >= 3

====
